---- MODULE Spec2Model ----
(***************************************************************************)
(* Model of the avatar checkers of userHeadOcr:                            *)
(*   im_ocr/head_ocr_util.py  HeadOCR         (accumulating evaluator)     *)
(*   im_ocr/head_ocr.py       HeadOCR         (fail-fast)                  *)
(*   im_ocr/avatar_detector.py AvatarDetector (fail-fast, strict_mode)     *)
(*   demo/backend.py          HeadOCR         (fail-fast, pose overrides)  *)
(* of the image-reference classifier they share, and of the record store   *)
(* demo/jsonline.py JsonLineDB that demo/backend.py keeps its items in.     *)
(*                                                                         *)
(* A check_avatar call is one action: the environment chooses what the     *)
(* provider call produces (a response, or an exception), the action        *)
(* computes the returned dict from it exactly as the code does.            *)
(*                                                                         *)
(* Python's None is the empty sequence <<>>; a present value v is <<v>>.   *)
(* A returned "message" string is the sequence of the parts the code       *)
(* joins with " | "; every part is a record whose kind names the f-string  *)
(* that produced it and whose other fields are the values formatted in.    *)
(* Fields the checks never read and only echo (FaceRect.X/Y, the           *)
(* Probability of Mask and Glass, imagePath, imageSource) are left out.    *)
(***************************************************************************)
EXTENDS Integers, Sequences, FiniteSets, TLC

VARIABLES variant, strict_mode, limits, outcome, result, calls, requests,
          class_limits, overridden,
          classifier, image_input, image_source, actual_image_url, again,
          db_file, tmp_file, pc, fd, data_list, op, read_result,
          request, imgs

vars == <<variant, strict_mode, limits, outcome, result, calls, requests,
          class_limits, overridden,
          classifier, image_input, image_source, actual_image_url, again,
          db_file, tmp_file, pc, fd, data_list, op, read_result,
          request, imgs>>
evaluation_vars == <<variant, strict_mode, limits, outcome, result, calls, requests,
                     class_limits, overridden>>
classifier_vars == <<classifier, image_input, image_source, actual_image_url, again>>
store_vars == <<db_file, tmp_file, pc, fd, data_list, op, read_result>>
item_vars == <<request, imgs>>

None == <<>>
Some(v) == <<v>>
IsNone(o) == o = <<>>
Get(o) == o[1]

(***************************************************************************)
(* Class-level thresholds                                                  *)
(***************************************************************************)
PITCH_MIN == -10
PITCH_MAX == 10
YAW_MIN == -10
YAW_MAX == 10
ROLL_MIN == -20
ROLL_MAX == 20
COMPLETENESS_THRESHOLD == 50
\* the literal 20 of _check_face_rect ("at least 20x20 pixels")
MIN_FACE_BOX == 20
\* the literal 70 of AvatarDetector._check_eye ("prob > 70")
EYE_CLOSED_PROB == 70

(***************************************************************************)
(* Bounds of the explored inputs                                           *)
(***************************************************************************)
\* the longest FaceDetailInfos list the provider returns in the model
MaxFaces == 2

(***************************************************************************)
(* Message parts: one constructor per message string of the sources.       *)
(***************************************************************************)
\* "图片中未检测到人脸"
NoFaceMsg == [kind |-> "no_face"]
\* util: f"图片中检测到 {n} 张人脸，只允许包含一张人脸"
MultiFaceCountMsg(n) == [kind |-> "multi_face", count |-> n]
\* head_ocr, avatar_detector: "检测到多张人脸，请上传单人头像"
MultiFaceMsg == [kind |-> "multi_face"]
\* "人脸框不合理"
FaceRectMsg == [kind |-> "face_rect"]
\* f"人脸上下偏移过大: {pitch}度（正常范围: {min}~{max}度）" and the yaw, roll forms
PoseMsg(axis, value, lo, hi) ==
    [kind |-> "pose", axis |-> axis, value |-> value, min |-> lo, max |-> hi]
\* util: f"检测到佩戴口罩: {label}"
MaskWornMsg(label) == [kind |-> "mask", text |-> "worn", label |-> label]
\* head_ocr, backend, avatar_detector: f"口罩佩戴不正确: {label}"
MaskIncorrectMsg(label) == [kind |-> "mask", text |-> "incorrect", label |-> label]
\* avatar_detector strict: "检测到佩戴口罩（严格模式下禁止佩戴口罩）"
MaskStrictMsg == [kind |-> "mask", text |-> "strict"]
\* "检测到佩戴墨镜" / "检测到佩戴墨镜（请摘除墨镜）"
GlassMsg == [kind |-> "glass"]
\* "检测到闭眼" / "检测到闭眼（请保持眼睛睁开）"
EyeMsg == [kind |-> "eye"]
\* "检测到佩戴帽子（请摘除帽子）"
HatMsg == [kind |-> "hat"]
\* f"眼睛被遮挡(完整度{v}<{threshold})" and the mouth, nose forms
OcclusionMsg(region, value, threshold) ==
    [kind |-> "occlusion", region |-> region, value |-> value, threshold |-> threshold]
\* "检测到有效头像"
ValidMsg == [kind |-> "valid"]
\* f"检测失败: {error_message}"
FailedMsg(error_message) == [kind |-> "failed", error_message |-> error_message]
\* f"图片文件不存在: {e}"
FileMissingMsg == [kind |-> "file_missing"]
\* f"读取图片文件失败: {e}"
FileReadMsg == [kind |-> "file_read"]

\* The dict check_avatar returns; a key the dict does not hold is None.
Result(valid, count, message, details, attributes, error, config) ==
    [hasValidAvatar |-> valid, faceCount |-> count, message |-> message,
     details |-> details, attributes |-> attributes, error |-> error,
     config |-> config]

\* an exception handler that reports a code of its own
ExceptionResult_own_code(error_code, error_message) ==
    IF error_code = Some("InvalidParameterValue.NoFaceInPhoto")
    THEN Result(FALSE, 0, <<NoFaceMsg>>, None, None, None, None)
    ELSE Result(FALSE, 0, <<FailedMsg(error_message)>>, None, None,
                Some([code |-> Some("DetectionFailed"), message |-> error_message]), None)

\* What the "except Exception as e" handler of check_avatar returns
\* (error_code is getattr(e, 'code', None): None for a non-SDK exception).
ExceptionResult(error_code, error_message) ==
    IF error_code = Some("InvalidParameterValue.NoFaceInPhoto")
    THEN Result(FALSE, 0, <<NoFaceMsg>>, None, None, None, None)
    ELSE Result(FALSE, 0, <<FailedMsg(error_message)>>, None, None,
                Some([code |-> error_code, message |-> error_message]), None)

\* The two early returns of the LOCAL_FILE branch.
FileNotFoundResult == Result(FALSE, 0, <<FileMissingMsg>>, None, None, None, None)
IOErrorResult == Result(FALSE, 0, <<FileReadMsg>>, None, None, None, None)

(***************************************************************************)
(* The checks                                                              *)
(***************************************************************************)
Valid == [valid |-> TRUE, message |-> <<>>]
Invalid(m) == [valid |-> FALSE, message |-> m]

\* a face-box check that rejects a side of exactly the minimum
check_face_rect_exclusive(face_rect) ==
    IF IsNone(face_rect) THEN FALSE
    ELSE IF Get(face_rect).Width <= 0 \/ Get(face_rect).Height <= 0 THEN FALSE
    ELSE IF Get(face_rect).Width <= MIN_FACE_BOX \/ Get(face_rect).Height <= MIN_FACE_BOX
         THEN FALSE
    ELSE TRUE

\* _check_face_rect, identical in the four files
check_face_rect(face_rect) ==
    IF IsNone(face_rect) THEN FALSE
    ELSE IF Get(face_rect).Width <= 0 \/ Get(face_rect).Height <= 0 THEN FALSE
    ELSE IF Get(face_rect).Width < MIN_FACE_BOX \/ Get(face_rect).Height < MIN_FACE_BOX
         THEN FALSE
    ELSE TRUE

\* a pose check whose bounds are exclusive
check_head_pose_with_limits_exclusive(head_pose, pitch_min, pitch_max, yaw_min, yaw_max, roll_min, roll_max) ==
    IF IsNone(head_pose) THEN Valid
    ELSE LET pitch == Get(head_pose).Pitch
             yaw == Get(head_pose).Yaw
             roll == Get(head_pose).Roll
         IN IF pitch <= pitch_min \/ pitch >= pitch_max
            THEN Invalid(<<PoseMsg("pitch", pitch, pitch_min, pitch_max)>>)
            ELSE IF yaw <= yaw_min \/ yaw >= yaw_max
            THEN Invalid(<<PoseMsg("yaw", yaw, yaw_min, yaw_max)>>)
            ELSE IF roll <= roll_min \/ roll >= roll_max
            THEN Invalid(<<PoseMsg("roll", roll, roll_min, roll_max)>>)
            ELSE Valid

\* backend.py
check_head_pose_with_limits(head_pose, pitch_min, pitch_max, yaw_min, yaw_max, roll_min, roll_max) ==
    IF IsNone(head_pose) THEN Valid
    ELSE LET pitch == Get(head_pose).Pitch
             yaw == Get(head_pose).Yaw
             roll == Get(head_pose).Roll
         IN IF pitch < pitch_min \/ pitch > pitch_max
            THEN Invalid(<<PoseMsg("pitch", pitch, pitch_min, pitch_max)>>)
            ELSE IF yaw < yaw_min \/ yaw > yaw_max
            THEN Invalid(<<PoseMsg("yaw", yaw, yaw_min, yaw_max)>>)
            ELSE IF roll < roll_min \/ roll > roll_max
            THEN Invalid(<<PoseMsg("roll", roll, roll_min, roll_max)>>)
            ELSE Valid

\* a pose check that passes every pose
check_head_pose_permissive(head_pose) == Valid

\* a pose check that looks at the yaw before the pitch
check_head_pose_yaw_first(head_pose) ==
    IF IsNone(head_pose) THEN Valid
    ELSE LET pitch == Get(head_pose).Pitch
             yaw == Get(head_pose).Yaw
             roll == Get(head_pose).Roll
         IN IF yaw < YAW_MIN \/ yaw > YAW_MAX
            THEN Invalid(<<PoseMsg("yaw", yaw, YAW_MIN, YAW_MAX)>>)
            ELSE IF pitch < PITCH_MIN \/ pitch > PITCH_MAX
            THEN Invalid(<<PoseMsg("pitch", pitch, PITCH_MIN, PITCH_MAX)>>)
            ELSE IF roll < ROLL_MIN \/ roll > ROLL_MAX
            THEN Invalid(<<PoseMsg("roll", roll, ROLL_MIN, ROLL_MAX)>>)
            ELSE Valid

\* head_ocr_util.py, head_ocr.py, avatar_detector.py (identical)
check_head_pose(head_pose) ==
    IF IsNone(head_pose) THEN Valid
    ELSE LET pitch == Get(head_pose).Pitch
             yaw == Get(head_pose).Yaw
             roll == Get(head_pose).Roll
         IN IF pitch < PITCH_MIN \/ pitch > PITCH_MAX
            THEN Invalid(<<PoseMsg("pitch", pitch, PITCH_MIN, PITCH_MAX)>>)
            ELSE IF yaw < YAW_MIN \/ yaw > YAW_MAX
            THEN Invalid(<<PoseMsg("yaw", yaw, YAW_MIN, YAW_MAX)>>)
            ELSE IF roll < ROLL_MIN \/ roll > ROLL_MAX
            THEN Invalid(<<PoseMsg("roll", roll, ROLL_MIN, ROLL_MAX)>>)
            ELSE Valid

\* mask_types.get(mask.Type, '未知') of head_ocr_util.py
HeadOCRUtil_mask_types(t) ==
    CASE t = 1 -> "no_cover" [] t = 2 -> "chin" [] t = 3 -> "mouth"
      [] t = 4 -> "correct" [] OTHER -> "unknown"

\* mask_types.get(mask.Type, '未知') of head_ocr.py, backend.py, avatar_detector.py
mask_types(t) ==
    CASE t = 1 -> "no_cover" [] t = 2 -> "chin" [] t = 3 -> "mouth"
      [] OTHER -> "unknown"

\* a mask check that also allows type 4, as head_ocr.py does
HeadOCRUtil_check_mask_allowing_4(mask) ==
    IF IsNone(mask) THEN Valid
    ELSE IF Get(mask).Type = 0 \/ Get(mask).Type = 4 THEN Valid
    ELSE Invalid(<<MaskWornMsg(HeadOCRUtil_mask_types(Get(mask).Type))>>)

\* head_ocr_util.py
HeadOCRUtil_check_mask(mask) ==
    IF IsNone(mask) THEN Valid
    ELSE IF Get(mask).Type = 0 THEN Valid
    ELSE Invalid(<<MaskWornMsg(HeadOCRUtil_mask_types(Get(mask).Type))>>)

\* head_ocr.py, backend.py (identical)
HeadOCR_check_mask(mask) ==
    IF IsNone(mask) THEN Valid
    ELSE IF Get(mask).Type = 0 \/ Get(mask).Type = 4 THEN Valid
    ELSE Invalid(<<MaskIncorrectMsg(mask_types(Get(mask).Type))>>)

\* avatar_detector.py
AvatarDetector_check_mask(mask, strict) ==
    IF IsNone(mask) THEN Valid
    ELSE IF strict
         THEN IF Get(mask).Type = 0 THEN Valid ELSE Invalid(<<MaskStrictMsg>>)
    ELSE IF Get(mask).Type = 0 \/ Get(mask).Type = 4 THEN Valid
    ELSE Invalid(<<MaskIncorrectMsg(mask_types(Get(mask).Type))>>)

\* a glasses check that rejects regular glasses as well
check_glass_any(glass) ==
    IF IsNone(glass) THEN Valid
    ELSE IF Get(glass).Type >= 1 THEN Invalid(<<GlassMsg>>)
    ELSE Valid

\* head_ocr_util.py
check_glass(glass) ==
    IF IsNone(glass) THEN Valid
    ELSE IF Get(glass).Type = 2 THEN Invalid(<<GlassMsg>>)
    ELSE Valid

\* an eye check that reads EyeOpen.Type 0 as closed
HeadOCRUtil_check_eye_type_0(eye) ==
    IF IsNone(eye) \/ IsNone(Get(eye).EyeOpen) THEN Valid
    ELSE IF Get(Get(eye).EyeOpen).Type = 0 THEN Invalid(<<EyeMsg>>)
    ELSE Valid

\* head_ocr_util.py: EyeOpen.Type 1 is read as closed
HeadOCRUtil_check_eye(eye) ==
    IF IsNone(eye) \/ IsNone(Get(eye).EyeOpen) THEN Valid
    ELSE IF Get(Get(eye).EyeOpen).Type = 1 THEN Invalid(<<EyeMsg>>)
    ELSE Valid

\* an occlusion check that counts a score equal to the threshold as occluded
check_occlusion_inclusive(quality) ==
    IF IsNone(quality) \/ IsNone(Get(quality).Completeness) THEN Valid
    ELSE LET completeness == Get(Get(quality).Completeness)
             threshold == COMPLETENESS_THRESHOLD
             errors ==
                 (IF completeness.Eye <= threshold
                  THEN <<OcclusionMsg("eye", completeness.Eye, threshold)>> ELSE <<>>)
                 \o (IF completeness.Mouth <= threshold
                     THEN <<OcclusionMsg("mouth", completeness.Mouth, threshold)>> ELSE <<>>)
                 \o (IF completeness.Nose <= threshold
                     THEN <<OcclusionMsg("nose", completeness.Nose, threshold)>> ELSE <<>>)
         IN IF errors # <<>> THEN Invalid(errors) ELSE Valid

\* head_ocr_util.py
check_occlusion(quality) ==
    IF IsNone(quality) \/ IsNone(Get(quality).Completeness) THEN Valid
    ELSE LET completeness == Get(Get(quality).Completeness)
             threshold == COMPLETENESS_THRESHOLD
             errors ==
                 (IF completeness.Eye < threshold
                  THEN <<OcclusionMsg("eye", completeness.Eye, threshold)>> ELSE <<>>)
                 \o (IF completeness.Mouth < threshold
                     THEN <<OcclusionMsg("mouth", completeness.Mouth, threshold)>> ELSE <<>>)
                 \o (IF completeness.Nose < threshold
                     THEN <<OcclusionMsg("nose", completeness.Nose, threshold)>> ELSE <<>>)
         IN IF errors # <<>> THEN Invalid(errors) ELSE Valid

\* a hat check that passes every hat
check_hat_permissive(hat) == Valid

\* a hat check that reads a missing Style as a hat
check_hat_unguarded(hat) ==
    IF IsNone(hat) THEN Valid
    ELSE LET style == Get(hat).Style
         IN IF IsNone(style) \/ Get(style).Type # 0 THEN Invalid(<<HatMsg>>)
            ELSE Valid

\* avatar_detector.py
check_hat(hat) ==
    IF IsNone(hat) THEN Valid
    ELSE LET style == Get(hat).Style
         IN IF ~IsNone(style) /\ Get(style).Type # 0 THEN Invalid(<<HatMsg>>)
            ELSE Valid

\* an eye check that looks for sunglasses first
AvatarDetector_check_eye_glass_first(eye) ==
    IF IsNone(eye) THEN Valid
    ELSE LET eye_open == Get(eye).EyeOpen
             glass == Get(eye).Glass
         IN IF ~IsNone(glass) /\ Get(glass).Type = 2
            THEN Invalid(<<GlassMsg>>)
            ELSE IF ~IsNone(eye_open) /\ Get(eye_open).Type = 0
                    /\ Get(eye_open).Probability > EYE_CLOSED_PROB
            THEN Invalid(<<EyeMsg>>)
            ELSE Valid

\* avatar_detector.py: closed eyes (EyeOpen.Type 0 with probability over 70)
\* first, sunglasses second
AvatarDetector_check_eye(eye) ==
    IF IsNone(eye) THEN Valid
    ELSE LET eye_open == Get(eye).EyeOpen
             glass == Get(eye).Glass
         IN IF ~IsNone(eye_open) /\ Get(eye_open).Type = 0
               /\ Get(eye_open).Probability > EYE_CLOSED_PROB
            THEN Invalid(<<EyeMsg>>)
            ELSE IF ~IsNone(glass) /\ Get(glass).Type = 2
            THEN Invalid(<<GlassMsg>>)
            ELSE Valid

(***************************************************************************)
(* check_avatar, from the provider call on.  o is what the call (or the    *)
(* read of the local file before it) produced:                             *)
(*   [kind |-> "file_missing"], [kind |-> "io_error"]                      *)
(*   [kind |-> "raised", code |-> None or Some(code), message |-> m]       *)
(*   [kind |-> "response", FaceDetailInfos |-> None or Some(list)]         *)
(* It yields [ret |-> the returned dict, calls |-> the _check_* methods    *)
(* the call invoked, in order].                                            *)
(***************************************************************************)
Ran(invoked, ret) == [ret |-> ret, calls |-> invoked]

\* the call of a check that the code guards with "if <attribute>:"
CallIf(attribute, name) == IF ~IsNone(attribute) THEN <<name>> ELSE <<>>

\* an evaluator that runs the checks and keeps none of their messages
Appended_dropped(attribute, check) == <<>>

\* head_ocr_util.py: "if <attribute>: check = ...; if not check["valid"]:
\* validation_errors.append(check["message"])"
Appended(attribute, check) ==
    IF ~IsNone(attribute) /\ ~check.valid THEN check.message ELSE <<>>

\* a count check that lets any number of faces through
MultipleFaces_never(n) == FALSE

\* a count check that lets two faces through
MultipleFaces_over_two(n) == n > 2

\* "len(resp.FaceDetailInfos) > 1"
MultipleFaces(n) == n > 1

NoFace(FaceDetailInfos) == IsNone(FaceDetailInfos) \/ Len(Get(FaceDetailInfos)) = 0

\* a no-face return that accepts
NoFaceResult_accepted == Result(TRUE, 0, <<NoFaceMsg>>, None, None, None, None)

NoFaceResult == Result(FALSE, 0, <<NoFaceMsg>>, None, None, None, None)

RectDetails(face_rect) == Some([faceRect |-> Get(face_rect)])

\* a face-box return that accepts
RectRejected_accepted(face_rect, n) ==
    IF IsNone(face_rect) THEN ExceptionResult(None, "AttributeError")
    ELSE Result(TRUE, n, <<FaceRectMsg>>, RectDetails(face_rect), None, None, None)

\* the rejection of a face box: building its "details" reads face_rect.X, which
\* raises AttributeError on a FaceRect of None, and the handler answers
RectRejected(face_rect, n) ==
    IF IsNone(face_rect) THEN ExceptionResult(None, "AttributeError")
    ELSE Result(FALSE, n, <<FaceRectMsg>>, RectDetails(face_rect), None, None, None)

\* head_ocr_util.py: the "attributes" dict
HeadOCRUtil_attributes(attrs, head_pose, quality) ==
    [glass |-> IF ~IsNone(attrs) /\ ~IsNone(Get(attrs).Eye) /\ ~IsNone(Get(Get(attrs).Eye).Glass)
               THEN Some(Get(Get(Get(attrs).Eye).Glass).Type) ELSE None,
     mask |-> IF ~IsNone(attrs) /\ ~IsNone(Get(attrs).Mask)
              THEN Some(Get(Get(attrs).Mask).Type) ELSE None,
     eye_open |-> IF ~IsNone(attrs) /\ ~IsNone(Get(attrs).Eye) /\ ~IsNone(Get(Get(attrs).Eye).EyeOpen)
                  THEN Some(Get(Get(Get(attrs).Eye).EyeOpen).Type) ELSE None,
     headpose |-> head_pose,
     completeness |-> IF IsNone(quality) THEN None
                      ELSE Some(Get(quality).Completeness)]

\* head_ocr_util.py: after the face box, every check runs and the failures are joined
HeadOCRUtil_evaluate(FaceDetailInfos) ==
    LET n == Len(Get(FaceDetailInfos))
        face_info == Get(FaceDetailInfos)[1]
        face_rect == face_info.FaceRect
        attrs == face_info.FaceDetailAttributesInfo
        quality == face_info.FaceQualityInfo
        head_pose == IF ~IsNone(attrs) THEN Get(attrs).HeadPose ELSE None
        mask == IF ~IsNone(attrs) THEN Get(attrs).Mask ELSE None
        glass == IF ~IsNone(attrs) /\ ~IsNone(Get(attrs).Eye)
                 THEN Get(Get(attrs).Eye).Glass ELSE None
        eye == IF ~IsNone(attrs) THEN Get(attrs).Eye ELSE None
        validation_errors ==
            Appended(head_pose, check_head_pose(head_pose))
            \o Appended(mask, HeadOCRUtil_check_mask(mask))
            \o Appended(glass, check_glass(glass))
            \o Appended(eye, HeadOCRUtil_check_eye(eye))
            \o Appended(quality, check_occlusion(quality))
        all_calls ==
            <<"check_face_rect">> \o CallIf(head_pose, "check_head_pose")
            \o CallIf(mask, "check_mask") \o CallIf(glass, "check_glass")
            \o CallIf(eye, "check_eye") \o CallIf(quality, "check_occlusion")
        attributes == Some(HeadOCRUtil_attributes(attrs, head_pose, quality))
    IN IF MultipleFaces(n)
       THEN Ran(<<>>, Result(FALSE, n, <<MultiFaceCountMsg(n)>>, None, None, None, None))
       ELSE IF ~check_face_rect(face_rect)
       THEN Ran(<<"check_face_rect">>, RectRejected(face_rect, n))
       ELSE IF validation_errors # <<>>
       THEN Ran(all_calls, Result(FALSE, n, validation_errors, None, attributes, None, None))
       ELSE Ran(all_calls, Result(TRUE, n, <<ValidMsg>>, RectDetails(face_rect), attributes,
                              None, None))

HeadOCRUtil_check_avatar(o) ==
    CASE o.kind = "file_missing" -> Ran(<<>>, FileNotFoundResult)
      [] o.kind = "io_error" -> Ran(<<>>, IOErrorResult)
      [] o.kind = "raised" -> Ran(<<>>, ExceptionResult(o.code, o.message))
      [] o.kind = "response" ->
            IF NoFace(o.FaceDetailInfos) THEN Ran(<<>>, NoFaceResult)
            ELSE HeadOCRUtil_evaluate(o.FaceDetailInfos)

\* head_ocr.py: the "details" of an accepted face
extract_avatar_attributes(face_info) ==
    LET attrs == face_info.FaceDetailAttributesInfo
        eye == IF ~IsNone(attrs) THEN Get(attrs).Eye ELSE None
        hat == IF ~IsNone(attrs) THEN Get(attrs).Hat ELSE None
    IN [faceRect |-> face_info.FaceRect,
        headPose |-> IF ~IsNone(attrs) THEN Get(attrs).HeadPose ELSE None,
        mask |-> IF ~IsNone(attrs) THEN Get(attrs).Mask ELSE None,
        eye |-> IF ~IsNone(eye) /\ (~IsNone(Get(eye).EyeOpen) \/ ~IsNone(Get(eye).Glass))
                THEN eye ELSE None,
        hat |-> IF ~IsNone(hat) /\ ~IsNone(Get(hat).Style) THEN hat ELSE None]

\* head_ocr.py: returns at the first failing check; checks pose and mask only
HeadOCR_evaluate(FaceDetailInfos) ==
    LET n == Len(Get(FaceDetailInfos))
        face_info == Get(FaceDetailInfos)[1]
        face_rect == face_info.FaceRect
        attrs == face_info.FaceDetailAttributesInfo
        head_pose == IF ~IsNone(attrs) THEN Get(attrs).HeadPose ELSE None
        mask == IF ~IsNone(attrs) THEN Get(attrs).Mask ELSE None
        pose_check == check_head_pose(head_pose)
        mask_check == HeadOCR_check_mask(mask)
        to_pose == <<"check_face_rect">> \o CallIf(head_pose, "check_head_pose")
        to_mask == to_pose \o CallIf(mask, "check_mask")
    IN IF MultipleFaces(n)
       THEN Ran(<<>>, Result(FALSE, n, <<MultiFaceMsg>>, None, None, None, None))
       ELSE IF ~check_face_rect(face_rect)
       THEN Ran(<<"check_face_rect">>, RectRejected(face_rect, n))
       ELSE IF ~IsNone(head_pose) /\ ~pose_check.valid
       THEN Ran(to_pose, Result(FALSE, n, pose_check.message,
                                Some([headPose |-> Get(head_pose)]), None, None, None))
       ELSE IF ~IsNone(mask) /\ ~mask_check.valid
       THEN Ran(to_mask, Result(FALSE, n, mask_check.message,
                                Some([mask |-> Get(mask)]), None, None, None))
       ELSE Ran(to_mask, Result(TRUE, 1, <<ValidMsg>>,
                                Some(extract_avatar_attributes(face_info)), None, None, None))

HeadOCR_check_avatar(o) ==
    CASE o.kind = "file_missing" -> Ran(<<>>, FileNotFoundResult)
      [] o.kind = "io_error" -> Ran(<<>>, IOErrorResult)
      [] o.kind = "raised" -> Ran(<<>>, ExceptionResult(o.code, o.message))
      [] o.kind = "response" ->
            IF NoFace(o.FaceDetailInfos) THEN Ran(<<>>, NoFaceResult)
            ELSE HeadOCR_evaluate(o.FaceDetailInfos)

\* avatar_detector.py: returns at the first failing check; the face count, the hat
\* and the eyes are checked in strict mode only
AvatarDetector_evaluate(FaceDetailInfos, strict) ==
    LET n == Len(Get(FaceDetailInfos))
        face_info == Get(FaceDetailInfos)[1]
        face_rect == face_info.FaceRect
        attrs == face_info.FaceDetailAttributesInfo
        head_pose == IF ~IsNone(attrs) THEN Get(attrs).HeadPose ELSE None
        mask == IF ~IsNone(attrs) THEN Get(attrs).Mask ELSE None
        hat == IF ~IsNone(attrs) THEN Get(attrs).Hat ELSE None
        eye == IF ~IsNone(attrs) THEN Get(attrs).Eye ELSE None
        pose_check == check_head_pose(head_pose)
        mask_check == AvatarDetector_check_mask(mask, strict)
        hat_check == check_hat(hat)
        eye_check == AvatarDetector_check_eye(eye)
        to_pose == <<"check_face_rect">> \o CallIf(head_pose, "check_head_pose")
        to_mask == to_pose \o CallIf(mask, "check_mask")
        to_hat == to_mask \o CallIf(hat, "check_hat")
        to_eye == to_hat \o CallIf(eye, "check_eye")
    IN IF strict /\ MultipleFaces(n)
       THEN Ran(<<>>, Result(FALSE, n, <<MultiFaceMsg>>, None, None, None, None))
       ELSE IF ~check_face_rect(face_rect)
       THEN Ran(<<"check_face_rect">>, RectRejected(face_rect, n))
       ELSE IF ~IsNone(head_pose) /\ ~pose_check.valid
       THEN Ran(to_pose, Result(FALSE, n, pose_check.message,
                                Some([headPose |-> Get(head_pose)]), None, None, None))
       ELSE IF ~IsNone(mask) /\ ~mask_check.valid
       THEN Ran(to_mask, Result(FALSE, n, mask_check.message,
                                Some([mask |-> Get(mask)]), None, None, None))
       ELSE IF strict /\ ~IsNone(hat) /\ ~hat_check.valid
       THEN Ran(to_hat, Result(FALSE, n, hat_check.message,
                               Some([hat |-> Get(hat)]), None, None, None))
       ELSE IF strict /\ ~IsNone(eye) /\ ~eye_check.valid
       THEN Ran(to_eye, Result(FALSE, n, eye_check.message,
                               Some([eye |-> Get(eye)]), None, None, None))
       ELSE Ran(IF strict THEN to_eye ELSE to_mask,
                Result(TRUE, n, <<ValidMsg>>,
                       Some([faceRect |-> face_rect, headPose |-> head_pose, mask |-> mask,
                             hat |-> hat, eye |-> eye]),
                       None, None, None))

AvatarDetector_check_avatar(o, strict) ==
    CASE o.kind = "file_missing" -> Ran(<<>>, FileNotFoundResult)
      [] o.kind = "io_error" -> Ran(<<>>, IOErrorResult)
      [] o.kind = "raised" -> Ran(<<>>, ExceptionResult(o.code, o.message))
      [] o.kind = "response" ->
            IF NoFace(o.FaceDetailInfos) THEN Ran(<<>>, NoFaceResult)
            ELSE AvatarDetector_evaluate(o.FaceDetailInfos, strict)

\* backend.py: the class attributes PITCH_MIN .. ROLL_MAX of HeadOCR
ClassAttributes ==
    [PITCH_MIN |-> PITCH_MIN, PITCH_MAX |-> PITCH_MAX, YAW_MIN |-> YAW_MIN,
     YAW_MAX |-> YAW_MAX, ROLL_MIN |-> ROLL_MIN, ROLL_MAX |-> ROLL_MAX]

\* backend.py: "pitch_min if pitch_min is not None else self.PITCH_MIN", six times
current_limits(lim) ==
    [pitch_min |-> IF ~IsNone(lim.pitch_min) THEN Get(lim.pitch_min) ELSE class_limits.PITCH_MIN,
     pitch_max |-> IF ~IsNone(lim.pitch_max) THEN Get(lim.pitch_max) ELSE class_limits.PITCH_MAX,
     yaw_min |-> IF ~IsNone(lim.yaw_min) THEN Get(lim.yaw_min) ELSE class_limits.YAW_MIN,
     yaw_max |-> IF ~IsNone(lim.yaw_max) THEN Get(lim.yaw_max) ELSE class_limits.YAW_MAX,
     roll_min |-> IF ~IsNone(lim.roll_min) THEN Get(lim.roll_min) ELSE class_limits.ROLL_MIN,
     roll_max |-> IF ~IsNone(lim.roll_max) THEN Get(lim.roll_max) ELSE class_limits.ROLL_MAX]

\* a check_avatar that stores the thresholds of the call in the class attributes
class_limits_after_storing(lim) ==
    [PITCH_MIN |-> current_limits(lim).pitch_min, PITCH_MAX |-> current_limits(lim).pitch_max,
     YAW_MIN |-> current_limits(lim).yaw_min, YAW_MAX |-> current_limits(lim).yaw_max,
     ROLL_MIN |-> current_limits(lim).roll_min, ROLL_MAX |-> current_limits(lim).roll_max]

\* backend.py: the class attributes after check_avatar; the thresholds of the call
\* are the locals current_pitch_min .. current_roll_max, no attribute is assigned
class_limits_after(lim) == class_limits

\* backend.py: returns at the first failing check; no check of the face count
Backend_evaluate(FaceDetailInfos, current) ==
    LET n == Len(Get(FaceDetailInfos))
        face_info == Get(FaceDetailInfos)[1]
        face_rect == face_info.FaceRect
        attrs == face_info.FaceDetailAttributesInfo
        head_pose == IF ~IsNone(attrs) THEN Get(attrs).HeadPose ELSE None
        mask == IF ~IsNone(attrs) THEN Get(attrs).Mask ELSE None
        pose_check == check_head_pose_with_limits(head_pose,
                          current.pitch_min, current.pitch_max,
                          current.yaw_min, current.yaw_max,
                          current.roll_min, current.roll_max)
        mask_check == HeadOCR_check_mask(mask)
        to_pose == <<"check_face_rect">> \o CallIf(head_pose, "check_head_pose")
        to_mask == to_pose \o CallIf(mask, "check_mask")
    IN IF ~check_face_rect(face_rect)
       THEN Ran(<<"check_face_rect">>, RectRejected(face_rect, n))
       ELSE IF ~IsNone(head_pose) /\ ~pose_check.valid
       THEN Ran(to_pose, Result(FALSE, n, pose_check.message,
                                Some([headPose |-> Get(head_pose)]), None, None,
                                Some(current)))
       ELSE IF ~IsNone(mask) /\ ~mask_check.valid
       THEN Ran(to_mask, Result(FALSE, n, mask_check.message,
                                Some([mask |-> Get(mask)]), None, None, Some(current)))
       ELSE Ran(to_mask, Result(TRUE, n, <<ValidMsg>>,
                                Some([faceRect |-> face_rect, headPose |-> head_pose,
                                      mask |-> mask]),
                                None, None, Some(current)))

Backend_check_avatar(o, lim) ==
    CASE o.kind = "file_missing" -> Ran(<<>>, FileNotFoundResult)
      [] o.kind = "io_error" -> Ran(<<>>, IOErrorResult)
      [] o.kind = "raised" -> Ran(<<>>, ExceptionResult(o.code, o.message))
      [] o.kind = "response" ->
            IF NoFace(o.FaceDetailInfos) THEN Ran(<<>>, NoFaceResult)
            ELSE Backend_evaluate(o.FaceDetailInfos, current_limits(lim))

(***************************************************************************)
(* The explored inputs.  A face is what one entry of FaceDetailInfos       *)
(* holds; an attribute the evaluator does not request from the provider    *)
(* (FaceAttributesType) is None, and the evaluators never read one.        *)
(* The faces are a union of slices, each the full product of some          *)
(* attributes with the others held at a few values.                        *)
(***************************************************************************)
Face(rect, attrs, quality) ==
    [FaceRect |-> rect, FaceDetailAttributesInfo |-> attrs, FaceQualityInfo |-> quality]

Attrs(pose, mask, eye, hat) ==
    Some([HeadPose |-> pose, Mask |-> mask, Eye |-> eye, Hat |-> hat])

Pose(p, y, r) == Some([Pitch |-> p, Yaw |-> y, Roll |-> r])
Rect(w, h) == Some([Width |-> w, Height |-> h])
MaskOf(t) == Some([Type |-> t])

BoxSides == {0, MIN_FACE_BOX - 1, MIN_FACE_BOX, 100}
OkRect == Rect(100, 100)
FaceRects == {None} \cup {Rect(w, h) : w \in BoxSides, h \in BoxSides}

CoarsePoses ==
    {None} \cup {Pose(p, y, r) : p \in {0, PITCH_MAX + 1}, y \in {0, YAW_MAX + 1},
                                 r \in {0, ROLL_MAX + 1}}
BoundaryPoses ==
    {Pose(p, y, r) : p \in {PITCH_MIN - 1, PITCH_MIN, 0, PITCH_MAX, PITCH_MAX + 1},
                     y \in {YAW_MIN - 1, YAW_MIN, 0, YAW_MAX, YAW_MAX + 1},
                     r \in {ROLL_MIN - 1, ROLL_MIN, 0, ROLL_MAX, ROLL_MAX + 1}}

\* 0..4 are the provider's mask types, 5 stands for a type the sources do not know
Masks == {None} \cup {MaskOf(t) : t \in 0..5}
EyeOpens ==
    {None} \cup {Some([Type |-> t, Probability |-> p]) :
                    t \in {0, 1}, p \in {EYE_CLOSED_PROB, EYE_CLOSED_PROB + 1}}
Glasses == {None} \cup {Some([Type |-> t]) : t \in 0..2}
Eyes == {None} \cup {Some([EyeOpen |-> e, Glass |-> g]) : e \in EyeOpens, g \in Glasses}
Hats == {None, Some([Style |-> None])} \cup {Some([Style |-> Some([Type |-> t])]) : t \in {0, 1}}
Completenesses ==
    {Some([Eye |-> e, Mouth |-> m, Nose |-> n]) :
        e \in {COMPLETENESS_THRESHOLD - 1, COMPLETENESS_THRESHOLD},
        m \in {COMPLETENESS_THRESHOLD - 1, COMPLETENESS_THRESHOLD},
        n \in {COMPLETENESS_THRESHOLD - 1, COMPLETENESS_THRESHOLD}}
Qualities == {None, Some([Completeness |-> None])} \cup {Some([Completeness |-> c]) : c \in Completenesses}
SomeQualities ==
    {None,
     Some([Completeness |-> Some([Eye |-> COMPLETENESS_THRESHOLD, Mouth |-> COMPLETENESS_THRESHOLD,
                                  Nose |-> COMPLETENESS_THRESHOLD])]),
     Some([Completeness |-> Some([Eye |-> COMPLETENESS_THRESHOLD - 1, Mouth |-> COMPLETENESS_THRESHOLD,
                                  Nose |-> COMPLETENESS_THRESHOLD - 1])])}

\* a face that passes every check of every evaluator
PlainFace == Face(OkRect, Attrs(Pose(0, 0, 0), MaskOf(0), None, None), None)
\* a few attribute blocks for the slices that vary something else
SomeAttrs ==
    {None, Attrs(None, None, None, None), Attrs(Pose(0, 0, 0), MaskOf(0), None, None),
     Attrs(Pose(0, 0, 0), MaskOf(1), None, None),
     Attrs(Pose(PITCH_MAX + 1, 0, 0), MaskOf(1), None, None)}

\* head_ocr_util.py requests "Headpose,Mask,Glass,Eye,Mouth,Nose" and reads FaceQualityInfo
HeadOCRUtil_Faces ==
    {Face(OkRect, Attrs(p, m, e, None), q) :
        p \in CoarsePoses, m \in Masks, e \in Eyes, q \in SomeQualities}
    \cup {Face(OkRect, a, q) : a \in SomeAttrs, q \in Qualities}
    \cup {Face(r, a, None) : r \in FaceRects, a \in SomeAttrs}
    \cup {Face(OkRect, Attrs(p, m, None, None), None) : p \in BoundaryPoses, m \in {None, MaskOf(1)}}

\* head_ocr.py requests "Headpose,Mask,Eye,Hat"; avatar_detector.py requests
\* "Headpose,Mask,Hat,Eye,Eyebrow"
HeadOCR_Faces ==
    {Face(OkRect, Attrs(p, m, e, h), None) :
        p \in CoarsePoses, m \in Masks, e \in Eyes, h \in Hats}
    \cup {Face(r, a, None) : r \in FaceRects, a \in SomeAttrs}
    \cup {Face(OkRect, Attrs(p, m, None, None), None) : p \in BoundaryPoses, m \in {None, MaskOf(1)}}

AvatarDetector_Faces == HeadOCR_Faces

\* backend.py requests "Headpose,Mask"
\* the poses at and next to the thresholds in force
BoundaryPosesOf(current) ==
    {Pose(p, y, r) :
        p \in {current.pitch_min - 1, current.pitch_min, 0, current.pitch_max, current.pitch_max + 1},
        y \in {current.yaw_min - 1, current.yaw_min, 0, current.yaw_max, current.yaw_max + 1},
        r \in {current.roll_min - 1, current.roll_min, 0, current.roll_max, current.roll_max + 1}}

Backend_Faces(current) ==
    {Face(OkRect, Attrs(p, m, None, None), None) : p \in CoarsePoses, m \in Masks}
    \cup {Face(r, a, None) : r \in FaceRects, a \in SomeAttrs}
    \cup {Face(OkRect, Attrs(p, m, None, None), None) :
             p \in BoundaryPosesOf(current), m \in {None, MaskOf(1)}}

\* FaceDetailInfos: missing, empty, or up to MaxFaces faces; the faces after
\* the first, which no evaluator reads, are PlainFace
\* (the length of the list is the provider's: no evaluator compares it with the
\* MaxFaceNum it asked for)
FaceLists(faces) ==
    {None, Some(<<>>)}
    \cup {Some([i \in 1..n |-> IF i = 1 THEN f ELSE PlainFace]) : f \in faces, n \in 1..MaxFaces}

\* the number of times check_avatar calls self.client.DetectFaceAttributes(req): not
\* at all when reading the local file failed, once otherwise (the handler of an
\* exception returns)
DetectFaceAttributes(o) == IF o.kind \in {"file_missing", "io_error"} THEN 0 ELSE 1

\* what the provider call, or the read of the local file before it, produces
Raised ==
    {[kind |-> "raised", code |-> Some("InvalidParameterValue.NoFaceInPhoto"), message |-> "no face"],
     [kind |-> "raised", code |-> Some("FailedOperation.ImageDecodeFailed"), message |-> "decode failed"],
     [kind |-> "raised", code |-> None, message |-> "timeout"]}
Outcomes(faces) ==
    {[kind |-> "file_missing"], [kind |-> "io_error"]} \cup Raised
    \cup {[kind |-> "response", FaceDetailInfos |-> l] : l \in FaceLists(faces)}

\* the pose thresholds a caller of backend.check_avatar passes: None, or its own value
NoLimits ==
    [pitch_min |-> None, pitch_max |-> None, yaw_min |-> None, yaw_max |-> None,
     roll_min |-> None, roll_max |-> None]
LimitArgs ==
    [pitch_min : {None, Some(-5)}, pitch_max : {None, Some(5)},
     yaw_min : {None, Some(-5)}, yaw_max : {None, Some(5)},
     roll_min : {None, Some(-15)}, roll_max : {None, Some(15)}]

(***************************************************************************)
(* The state machine: a caller calls one check_avatar and consumes the     *)
(* returned dict; nothing is kept across calls.                            *)
(***************************************************************************)
\* demo/backend.py before any request: no request answered, no file in imgs/
ItemsIdle ==
    /\ request = [name |-> "none"]
    /\ imgs = {}

\* the two callers of the record store, and the store before anything was written:
\* no database file, no temporary file, no operation running
Writers == {1, 2}
StoreIdle ==
    /\ db_file = None
    /\ tmp_file = None
    /\ pc = [p \in Writers |-> "idle"]
    /\ fd = [p \in Writers |-> "closed"]
    /\ data_list = [p \in Writers |-> <<>>]
    /\ op = [p \in Writers |-> [name |-> "none"]]
    /\ read_result = [kind |-> "none"]

Init ==
    /\ variant = "none"
    /\ strict_mode = FALSE
    /\ limits = NoLimits
    /\ outcome = [kind |-> "none"]
    /\ result = None
    /\ calls = <<>>
    /\ requests = 0
    /\ class_limits = ClassAttributes
    /\ overridden = FALSE
    /\ StoreIdle
    /\ ItemsIdle
    /\ classifier = "none"
    /\ image_input = <<>>
    /\ image_source = "none"
    /\ actual_image_url = None
    /\ again = <<>>

CallHeadOCRUtil ==
    /\ variant = "none"
    /\ \E o \in Outcomes(HeadOCRUtil_Faces) :
          /\ outcome' = o
          /\ result' = Some(HeadOCRUtil_check_avatar(o).ret)
          /\ calls' = HeadOCRUtil_check_avatar(o).calls
          /\ requests' = DetectFaceAttributes(o)
    /\ variant' = "head_ocr_util"
    /\ UNCHANGED <<strict_mode, limits, class_limits, overridden, classifier_vars, store_vars, item_vars>>

CallHeadOCR ==
    /\ variant = "none"
    /\ \E o \in Outcomes(HeadOCR_Faces) :
          /\ outcome' = o
          /\ result' = Some(HeadOCR_check_avatar(o).ret)
          /\ calls' = HeadOCR_check_avatar(o).calls
          /\ requests' = DetectFaceAttributes(o)
    /\ variant' = "head_ocr"
    /\ UNCHANGED <<strict_mode, limits, class_limits, overridden, classifier_vars, store_vars, item_vars>>

CallAvatarDetector ==
    /\ variant = "none"
    /\ \E o \in Outcomes(AvatarDetector_Faces), strict \in BOOLEAN :
          /\ outcome' = o
          /\ strict_mode' = strict
          /\ result' = Some(AvatarDetector_check_avatar(o, strict).ret)
          /\ calls' = AvatarDetector_check_avatar(o, strict).calls
          /\ requests' = DetectFaceAttributes(o)
    /\ variant' = "avatar_detector"
    /\ UNCHANGED <<limits, class_limits, overridden, classifier_vars, store_vars, item_vars>>

CallBackend ==
    /\ variant = "none"
    /\ \E lim \in LimitArgs :
       \E o \in Outcomes(Backend_Faces(current_limits(lim))) :
          /\ outcome' = o
          /\ limits' = lim
          /\ result' = Some(Backend_check_avatar(o, lim).ret)
          /\ calls' = Backend_check_avatar(o, lim).calls
          /\ requests' = DetectFaceAttributes(o)
          /\ class_limits' = class_limits_after(lim)
          /\ overridden' = (overridden \/ lim # NoLimits)
    /\ variant' = "backend"
    /\ UNCHANGED <<strict_mode, classifier_vars, store_vars, item_vars>>

\* the caller has consumed the dict
Return ==
    /\ variant # "none"
    /\ variant' = "none"
    /\ strict_mode' = FALSE
    /\ limits' = NoLimits
    /\ outcome' = [kind |-> "none"]
    /\ result' = None
    /\ calls' = <<>>
    /\ requests' = 0
    /\ UNCHANGED <<class_limits, overridden, classifier_vars, store_vars, item_vars>>

Next == CallHeadOCRUtil \/ CallHeadOCR \/ CallAvatarDetector \/ CallBackend \/ Return

Spec == Init /\ [][Next]_vars

(***************************************************************************)
(* The classifier of the image input.  A str is the sequence of its        *)
(* characters; startswith, "in" and os.path.isabs are computed on the      *)
(* characters as Python computes them (os.path is posixpath).              *)
(***************************************************************************)
\* the most path segments of an explored input
MaxSegments == 2
\* the most further classifications of one string
MaxRepeats == 2

\* str.startswith(prefix)
startswith(str, prefix) ==
    Len(str) >= Len(prefix) /\ SubSeq(str, 1, Len(prefix)) = prefix

\* "sub in str"
contains(sub, str) ==
    \E i \in 1..(Len(str) - Len(sub) + 1) : SubSeq(str, i, i + Len(sub) - 1) = sub

\* posixpath.isabs: the path starts with "/"
isabs(path) == startswith(path, <<"/">>)

http == <<"h", "t", "t", "p", ":", "/", "/">>
https == <<"h", "t", "t", "p", "s", ":", "/", "/">>
image_baidu_com == <<"i", "m", "a", "g", "e", ".", "b", "a", "i", "d", "u", ".", "c", "o", "m">>
baidu_com == <<"b", "a", "i", "d", "u", ".", "c", "o", "m">>
objurl == <<"o", "b", "j", "u", "r", "l">>
google_com == <<"g", "o", "o", "g", "l", "e", ".", "c", "o", "m">>
googleusercontent_com == <<"g", "o", "o", "g", "l", "e", "u", "s", "e", "r", "c", "o", "n", "t", "e", "n", "t", ".", "c", "o", "m">>
imgurl == <<"i", "m", "g", "u", "r", "l">>

\* identical in the four files
is_relative_path(path) ==
    IF startswith(path, http) \/ startswith(path, https) THEN FALSE
    ELSE IF isabs(path) THEN FALSE
    ELSE TRUE

\* a test that wants the carrier parameter on image.baidu.com as well
is_baidu_image_url_with_carrier(url) ==
    (contains(image_baidu_com, url) \/ contains(baidu_com, url)) /\ contains(objurl, url)

\* identical in the four files
is_baidu_image_url(url) ==
    contains(image_baidu_com, url) \/ (contains(baidu_com, url) /\ contains(objurl, url))

\* a classifier that takes every reference for a direct URL once the object has
\* called the provider
HeadOCR_get_image_type_after_request(input) ==
    IF requests > 0 THEN "direct_url"
    ELSE IF is_relative_path(input) \/ isabs(input) THEN "local_file"
    ELSE IF is_baidu_image_url(input) THEN "baidu_url"
    ELSE "direct_url"

\* head_ocr_util.py, head_ocr.py, backend.py (identical): ImageSource values
HeadOCR_get_image_type(input) ==
    IF is_relative_path(input) \/ isabs(input) THEN "local_file"
    ELSE IF is_baidu_image_url(input) THEN "baidu_url"
    ELSE "direct_url"

\* avatar_detector.py: no os.path.isabs test
AvatarDetector_get_image_type(input) ==
    IF is_relative_path(input) THEN "relative_path"
    ELSE IF is_baidu_image_url(input) THEN "baidu_url"
    ELSE "direct_url"

(***************************************************************************)
(* _extract_image_url: urllib.parse.urlparse, parse_qs and unquote,        *)
(* computed on the characters as urllib computes them.                     *)
(***************************************************************************)
\* str.find: the index of the first character of str that is in stops, Len(str) + 1
\* when there is none
find(str, stops) ==
    LET found == {i \in 1..Len(str) : str[i] \in stops}
    IN IF found = {} THEN Len(str) + 1 ELSE CHOOSE i \in found : \A j \in found : i <= j

\* str.split(sep): the pieces between the occurrences of the character sep
RECURSIVE split(_, _)
split(str, sep) ==
    LET i == find(str, {sep})
    IN IF i > Len(str) THEN <<str>>
       ELSE <<SubSeq(str, 1, i - 1)>> \o split(SubSeq(str, i + 1, Len(str)), sep)

\* the characters a URL scheme is made of (urllib.parse.scheme_chars)
scheme_chars ==
    {"a", "b", "c", "d", "e", "f", "g", "h", "i", "j", "k", "l", "m", "n", "o", "p", "q",
     "r", "s", "t", "u", "v", "w", "x", "y", "z", "A", "B", "C", "D", "E", "F", "G", "H",
     "I", "J", "K", "L", "M", "N", "O", "P", "Q", "R", "S", "T", "U", "V", "W", "X", "Y",
     "Z", "0", "1", "2", "3", "4", "5", "6", "7", "8", "9", "+", "-", "."}
letters == scheme_chars \ {"0", "1", "2", "3", "4", "5", "6", "7", "8", "9", "+", "-", "."}

\* urlsplit: what follows the scheme, the whole url when it starts with no scheme
after_scheme(url) ==
    LET i == find(url, {":"})
    IN IF i > 1 /\ i <= Len(url) /\ url[1] \in letters
          /\ \A k \in 1..(i - 1) : url[k] \in scheme_chars
       THEN SubSeq(url, i + 1, Len(url))
       ELSE url

\* urlsplit: the netloc, from a leading "//" to the first "/", "?" or "#"
netloc(url) ==
    LET rest == after_scheme(url)
    IN IF startswith(rest, <<"/", "/">>)
       THEN SubSeq(rest, 3, find(SubSeq(rest, 3, Len(rest)), {"/", "?", "#"}) + 1)
       ELSE <<>>

\* urlsplit raises ValueError("Invalid IPv6 URL") on a netloc with one bracket only
urlparse_raises(url) ==
    LET n == netloc(url)
        open == \E i \in 1..Len(n) : n[i] = "["
        close == \E i \in 1..Len(n) : n[i] = "]"
    IN (open /\ ~close) \/ (close /\ ~open)

\* urlparse(url).query: the fragment is cut off at the first "#", the query is what
\* follows the first "?" of the rest
urlparse_query(url) ==
    LET rest == after_scheme(url)
        path == IF startswith(rest, <<"/", "/">>)
                THEN SubSeq(rest, 3 + Len(netloc(url)), Len(rest)) ELSE rest
        no_fragment == SubSeq(path, 1, find(path, {"#"}) - 1)
    IN SubSeq(no_fragment, find(no_fragment, {"?"}) + 1, Len(no_fragment))

\* bytes.fromhex of the two characters after a "%": the escapes of the explored
\* inputs
hex_pairs ==
    {<<"2", "5">>, <<"2", "0">>, <<"2", "F">>, <<"2", "f">>, <<"3", "A">>, <<"3", "a">>,
     <<"3", "F">>, <<"3", "f">>, <<"3", "D">>, <<"3", "d">>, <<"2", "6">>, <<"2", "B">>,
     <<"2", "b">>, <<"2", "3">>}
fromhex(pair) ==
    CASE pair = <<"2", "5">> -> "%"
      [] pair = <<"2", "0">> -> " "
      [] pair \in {<<"2", "F">>, <<"2", "f">>} -> "/"
      [] pair \in {<<"3", "A">>, <<"3", "a">>} -> ":"
      [] pair \in {<<"3", "F">>, <<"3", "f">>} -> "?"
      [] pair \in {<<"3", "D">>, <<"3", "d">>} -> "="
      [] pair = <<"2", "6">> -> "&"
      [] pair \in {<<"2", "B">>, <<"2", "b">>} -> "+"
      [] pair = <<"2", "3">> -> "#"

\* urllib.parse.unquote: one pass, each %XX replaced by its character, anything
\* else (a "%" without two hex digits after it too) kept
RECURSIVE unquote(_)
unquote(str) ==
    IF str = <<>> THEN <<>>
    ELSE IF str[1] = "%" /\ Len(str) >= 3 /\ <<str[2], str[3]>> \in hex_pairs
    THEN <<fromhex(<<str[2], str[3]>>)>> \o unquote(SubSeq(str, 4, Len(str)))
    ELSE <<str[1]>> \o unquote(SubSeq(str, 2, Len(str)))

\* str.replace('+', ' ')
replace_plus(str) == [i \in 1..Len(str) |-> IF str[i] = "+" THEN " " ELSE str[i]]

\* parse_qs(query)[name], [] when name is no key: the query is split at "&", a field
\* without "=" or with nothing after it is dropped, names and values have "+" turned
\* to a space and are unquoted
parse_qs(query, name) ==
    LET fields == split(query, "&")
        eq(field) == find(field, {"="})
        kept == SelectSeq(fields, LAMBDA field :
                    /\ eq(field) < Len(field)
                    /\ unquote(replace_plus(SubSeq(field, 1, eq(field) - 1))) = name)
    IN [i \in 1..Len(kept) |->
            unquote(replace_plus(SubSeq(kept[i], eq(kept[i]) + 1, Len(kept[i]))))]

\* identical in the four files
extract_image_url(url) ==
    LET objurls == parse_qs(urlparse_query(url), objurl)
        imgurls == parse_qs(urlparse_query(url), imgurl)
    IN IF (contains(image_baidu_com, url) \/ contains(baidu_com, url))
          /\ ~urlparse_raises(url) /\ objurls # <<>>
       THEN unquote(objurls[1])
       ELSE IF (contains(google_com, url) \/ contains(googleusercontent_com, url))
               /\ ~urlparse_raises(url) /\ imgurls # <<>>
       THEN imgurls[1]
       ELSE url

\* The explored inputs: what the string starts with, a host, path segments,
\* a file name and a query string.
Starts ==
    {<<>>, <<"/">>, <<".", "/">>, <<".", ".", "/">>, http, https,
     <<"H", "T", "T", "P", ":", "/", "/">>, <<"f", "t", "p", ":", "/", "/">>, <<"h", "t", "t", "p", ":", "/">>, <<"f", "i", "l", "e", ":", "/", "/", "/">>}
Hosts == {<<"x">>, <<"r", "e", "l">>, image_baidu_com, baidu_com, google_com, <<"w", "w", "w", ".", "b", "a", "i", "d", "u", ".", "c", "o", "m">>}
Segment == <<"/", "p">>
RECURSIVE Segments(_)
Segments(k) == IF k = 0 THEN <<>> ELSE Segment \o Segments(k - 1)
Files == {<<>>, <<"/", "y", ".", "j", "p", "g">>}
Queries == {<<>>, <<"?", "o", "b", "j", "u", "r", "l", "=", "u">>, <<"?", "i", "m", "g", "u", "r", "l", "=", "u">>}
PathInputs ==
    {<<>>} \cup
    {s \o h \o Segments(k) \o f \o q :
        s \in Starts, h \in Hosts, k \in 0..MaxSegments, f \in Files, q \in Queries}

\* URLs with a carrier parameter: where it stands, and what its value is
\* (plain, percent-encoded once, holding an encoded "%", holding a "+")
CarrierBases ==
    {<<"h", "t", "t", "p", ":", "/", "/", "i", "m", "a", "g", "e", ".", "b", "a", "i", "d", "u", ".", "c", "o", "m", "/", "s">>, <<"h", "t", "t", "p", "s", ":", "/", "/", "w", "w", "w", ".", "b", "a", "i", "d", "u", ".", "c", "o", "m", "/", "s">>, <<"h", "t", "t", "p", ":", "/", "/", "x", "/", "s">>,
     <<"h", "t", "t", "p", ":", "/", "/", "[", "b", "a", "i", "d", "u", ".", "c", "o", "m", "/", "s">>, <<"h", "t", "t", "p", ":", "/", "/", "i", "m", "a", "g", "e", ".", "b", "a", "i", "d", "u", ".", "c", "o", "m", "/", "g", "o", "o", "g", "l", "e", ".", "c", "o", "m">>}
CarrierValues ==
    {<<"u">>, <<"h", "t", "t", "p", "%", "3", "A", "%", "2", "F", "%", "2", "F", "x", "%", "2", "F", "y", ".", "j", "p", "g">>, <<"h", "t", "t", "p", "%", "3", "A", "%", "2", "F", "%", "2", "F", "x", "%", "2", "F", "a", "%", "2", "5", "2", "0", "b">>, <<"a", "+", "b">>, <<"a", "%", "2", "B", "b">>}
CarrierQueries ==
    {<<>>, <<"?", "o", "b", "j", "u", "r", "l", "=">>}
    \cup {<<"?", "o", "b", "j", "u", "r", "l", "=">> \o v : v \in CarrierValues}
    \cup {<<"?", "a", "=", "b", "&", "o", "b", "j", "u", "r", "l", "=">> \o v : v \in CarrierValues}
    \cup {<<"?", "o", "b", "j", "u", "r", "l", "=">> \o v \o <<"#", "f">> : v \in CarrierValues}
    \cup {<<"#", "?", "o", "b", "j", "u", "r", "l", "=">> \o v : v \in CarrierValues}
    \cup {<<"?", "i", "m", "g", "u", "r", "l", "=">> \o v : v \in CarrierValues}
CarrierInputs == {b \o q : b \in CarrierBases, q \in CarrierQueries}

ImageInputs == PathInputs \cup CarrierInputs

ClassifyInit ==
    /\ classifier = "none"
    /\ image_input = <<>>
    /\ image_source = "none"
    /\ actual_image_url = None
    /\ again = <<>>
    /\ variant = "none"
    /\ strict_mode = FALSE
    /\ limits = NoLimits
    /\ outcome = [kind |-> "none"]
    /\ result = None
    /\ calls = <<>>
    /\ requests = 0
    /\ class_limits = ClassAttributes
    /\ overridden = FALSE
    /\ StoreIdle
    /\ ItemsIdle

\* HeadOCR._get_image_type of head_ocr_util.py, head_ocr.py, backend.py
GetImageTypeHeadOCR ==
    /\ classifier = "none"
    /\ \E input \in ImageInputs :
          /\ image_input' = input
          /\ image_source' = HeadOCR_get_image_type(input)
    /\ classifier' = "HeadOCR"
    /\ UNCHANGED <<actual_image_url, again, evaluation_vars, store_vars, item_vars>>

\* AvatarDetector._get_image_type
GetImageTypeAvatarDetector ==
    /\ classifier = "none"
    /\ \E input \in ImageInputs :
          /\ image_input' = input
          /\ image_source' = AvatarDetector_get_image_type(input)
    /\ classifier' = "AvatarDetector"
    /\ UNCHANGED <<actual_image_url, again, evaluation_vars, store_vars, item_vars>>

\* check_avatar, the URL branch: "if image_source == ImageSource.BAIDU_URL:
\* actual_image_url = self._extract_image_url(image_input) else: actual_image_url =
\* image_input", then req.Url = actual_image_url (the same in the four files)
SetRequestUrl ==
    /\ classifier # "none"
    /\ image_source \in {"baidu_url", "direct_url"}
    /\ actual_image_url = None
    /\ actual_image_url' = Some(IF image_source = "baidu_url"
                                THEN extract_image_url(image_input)
                                ELSE image_input)
    /\ UNCHANGED <<classifier, image_input, image_source, again, evaluation_vars, store_vars, item_vars>>

\* a further call of _get_image_type and of _extract_image_url of the same object
\* on the same string; the entry notes which check_avatar ran before it, if any
GetImageTypeAgain ==
    /\ classifier # "none"
    /\ Len(again) < MaxRepeats
    /\ again' = Append(again,
                  [type |-> IF classifier = "HeadOCR"
                            THEN HeadOCR_get_image_type(image_input)
                            ELSE AvatarDetector_get_image_type(image_input),
                   url |-> extract_image_url(image_input),
                   between |-> variant])
    /\ UNCHANGED <<classifier, image_input, image_source, actual_image_url, evaluation_vars, store_vars, item_vars>>

\* between two classifications the object runs a check_avatar whose provider call
\* raises
CheckAvatarBetween ==
    /\ classifier # "none"
    /\ variant = "none"
    /\ \E o \in Raised :
          /\ outcome' = o
          /\ result' = Some(IF classifier = "HeadOCR"
                            THEN HeadOCRUtil_check_avatar(o).ret
                            ELSE AvatarDetector_check_avatar(o, strict_mode).ret)
          /\ calls' = <<>>
          /\ requests' = DetectFaceAttributes(o)
    /\ variant' = IF classifier = "HeadOCR" THEN "head_ocr_util" ELSE "avatar_detector"
    /\ UNCHANGED <<strict_mode, limits, class_limits, overridden, classifier_vars, store_vars, item_vars>>

\* the caller has taken the type
ClassifyReturn ==
    /\ classifier # "none"
    /\ classifier' = "none"
    /\ image_input' = <<>>
    /\ image_source' = "none"
    /\ actual_image_url' = None
    /\ again' = <<>>
    /\ variant' = "none"
    /\ outcome' = [kind |-> "none"]
    /\ result' = None
    /\ calls' = <<>>
    /\ requests' = 0
    /\ UNCHANGED <<strict_mode, limits, class_limits, overridden, store_vars, item_vars>>

ClassifyNext ==
    \/ GetImageTypeHeadOCR \/ GetImageTypeAvatarDetector \/ SetRequestUrl
    \/ GetImageTypeAgain \/ CheckAvatarBetween \/ ClassifyReturn

SpecClassify == ClassifyInit /\ [][ClassifyNext]_vars

(***************************************************************************)
(* demo/jsonline.py: JsonLineDB.  A file is None while it does not exist   *)
(* and Some(lines) otherwise, a line being the dict json.loads gives; a    *)
(* dict is a function of its keys, the value of "id" an integer Some(n)    *)
(* or Python's None.  _write_all_lines is the steps a second writer or a   *)
(* reader can fall between: open the temporary file (which truncates it),  *)
(* write the lines and close, replace the database file.  The lines are    *)
(* buffered, so they reach the file when it is closed.                     *)
(***************************************************************************)
\* the largest id of an explored dict
MaxId == 2
Ids == {Some(i) : i \in 1..MaxId} \cup {None}
Names == {"x", "y"}
\* the dicts handed to upsert: with an "id" key, and without one
Data == [id : Ids, name : Names] \cup [name : Names]

\* dict.get(key, default)
get(item, key, default) == IF key \in DOMAIN item THEN item[key] ELSE default

\* _read_all_lines: [] when the file does not exist, else its lines
read_all_lines(file) == IF file = None THEN <<>> ELSE Get(file)

\* sorted(data_list, key=lambda x: x.get('id', 0)) compares the keys with "<", which
\* raises TypeError between None and an integer and between None and None; every
\* element of a list of two or more is compared at least once
sorted_raises(list) ==
    Len(list) >= 2 /\ \E i \in 1..Len(list) : get(list[i], "id", Some(0)) = None

\* list.insert at the place a stable sort gives x among the sorted elements
RECURSIVE insort(_, _)
insort(list, x) ==
    IF list = <<>> THEN <<x>>
    ELSE IF Get(get(x, "id", Some(0))) < Get(get(list[1], "id", Some(0)))
    THEN <<x>> \o list
    ELSE <<list[1]>> \o insort(Tail(list), x)

\* a write that keeps the order of the list it is given
sorted_as_given(list) == list

\* sorted(data_list, key=lambda x: x.get('id', 0)), where it does not raise
RECURSIVE sorted(_)
sorted(list) ==
    IF Len(list) <= 1 THEN list
    ELSE insort(sorted(SubSeq(list, 1, Len(list) - 1)), list[Len(list)])

\* an upsert that appends whether or not the id is stored
upserted_appending(list, data) == Append(list, data)

\* an upsert that, where the id is stored, overwrites every stored item
upserted_over_all(list, data) ==
    IF \E i \in 1..Len(list) : get(list[i], "id", None) = data.id
    THEN [i \in 1..Len(list) |-> data]
    ELSE Append(list, data)

\* upsert, the list it writes: the first item with the id replaced, else appended
upserted(list, data) ==
    IF \E i \in 1..Len(list) : get(list[i], "id", None) = data.id
    THEN LET i == CHOOSE i \in 1..Len(list) :
                     /\ get(list[i], "id", None) = data.id
                     /\ \A j \in 1..(i - 1) : get(list[j], "id", None) # data.id
         IN [list EXCEPT ![i] = data]
    ELSE Append(list, data)

\* delete: [item for item in data_list if item.get(id_key) != data_id]
filtered(list, data_id) == SelectSeq(list, LAMBDA item : get(item, "id", None) # data_id)

\* a delete that writes the file whether or not it removed a record
removed_always(list, original) == TRUE

\* delete: "if len(data_list) < original_count"
removed(list, original) == Len(list) < Len(original)

\* get_by_id: the first item with the id, None when there is none
get_by_id(file, data_id) ==
    LET list == read_all_lines(file)
        found == {i \in 1..Len(list) : get(list[i], "id", None) = data_id}
    IN IF found = {} THEN None
       ELSE Some(list[CHOOSE i \in found : \A j \in found : i <= j])

\* exists: get_by_id(...) is not None
exists(file, data_id) == get_by_id(file, data_id) # None

\* read_all: the sorted lines, or the TypeError of sorted
read_all(file) ==
    IF sorted_raises(read_all_lines(file)) THEN [kind |-> "TypeError"]
    ELSE [kind |-> "returned", value |-> sorted(read_all_lines(file))]

\* the operation of writer p has returned or raised
Returned(p, value) ==
    /\ pc' = [pc EXCEPT ![p] = "idle"]
    /\ op' = [op EXCEPT ![p].ret = value]

\* the file descriptors after the temporary file is unlinked: one open on it keeps
\* a file without a name
AfterUnlink(p) == [q \in Writers |-> IF q = p THEN "closed"
                                     ELSE IF fd[q] = "tmp" THEN "orphan" ELSE fd[q]]

\* the file descriptors after os.replace(temp_path, db_path): one open on the
\* temporary file is now open on the database file, one open on the old database
\* file keeps a file without a name
AfterReplace(p) == [q \in Writers |-> IF q = p THEN "closed"
                                      ELSE IF fd[q] = "tmp" THEN "db"
                                      ELSE IF fd[q] = "db" THEN "orphan" ELSE fd[q]]

\* what a file holds after lines are written at its start: the lines, then what the
\* file held beyond them (the explored lines have the same length)
Written(lines, held) == lines \o SubSeq(held, Len(lines) + 1, Len(held))

\* upsert(data) up to the first step of _write_all_lines: ValueError without the
\* "id" key; else read, replace or append, sort; when sorted raises, the handler
\* reads temp_path before it was bound and the call raises UnboundLocalError
Upsert(p, data) ==
    /\ pc[p] = "idle"
    /\ IF "id" \notin DOMAIN data
       THEN /\ op' = [op EXCEPT ![p] = [name |-> "upsert", data |-> data, before |-> db_file,
                                         ret |-> "ValueError"]]
            /\ UNCHANGED <<pc, data_list>>
       ELSE LET list == upserted(read_all_lines(db_file), data)
            IN IF sorted_raises(list)
               THEN /\ op' = [op EXCEPT ![p] = [name |-> "upsert", data |-> data,
                                                 before |-> db_file,
                                                 ret |-> "UnboundLocalError"]]
                    /\ UNCHANGED <<pc, data_list>>
               ELSE /\ op' = [op EXCEPT ![p] = [name |-> "upsert", data |-> data,
                                                 before |-> db_file, ret |-> "running"]]
                    /\ data_list' = [data_list EXCEPT ![p] = sorted(list)]
                    /\ pc' = [pc EXCEPT ![p] = "open"]
    /\ UNCHANGED <<db_file, tmp_file, fd, read_result, evaluation_vars, classifier_vars, item_vars>>

\* delete(data_id) up to the first step of _write_all_lines: read, filter; True
\* without a write when nothing was removed
Delete(p, data_id) ==
    /\ pc[p] = "idle"
    /\ LET list == filtered(read_all_lines(db_file), data_id)
       IN IF removed(list, read_all_lines(db_file))
          THEN IF sorted_raises(list)
               THEN /\ op' = [op EXCEPT ![p] = [name |-> "delete", data_id |-> data_id,
                                                 before |-> db_file,
                                                 ret |-> "UnboundLocalError"]]
                    /\ UNCHANGED <<pc, data_list>>
               ELSE /\ op' = [op EXCEPT ![p] = [name |-> "delete", data_id |-> data_id,
                                                 before |-> db_file, ret |-> "running"]]
                    /\ data_list' = [data_list EXCEPT ![p] = sorted(list)]
                    /\ pc' = [pc EXCEPT ![p] = "open"]
          ELSE /\ op' = [op EXCEPT ![p] = [name |-> "delete", data_id |-> data_id,
                                            before |-> db_file, ret |-> "True"]]
               /\ UNCHANGED <<pc, data_list>>
    /\ UNCHANGED <<db_file, tmp_file, fd, read_result, evaluation_vars, classifier_vars, item_vars>>

\* _write_all_lines: open(temp_path, 'w') creates the file or empties the one there
OpenTemp(p) ==
    /\ pc[p] = "open"
    /\ tmp_file' = Some(<<>>)
    /\ fd' = [fd EXCEPT ![p] = "tmp"]
    /\ pc' = [pc EXCEPT ![p] = "write"]
    /\ UNCHANGED <<db_file, data_list, op, read_result, evaluation_vars, classifier_vars, item_vars>>

\* _write_all_lines: the f.write calls and the end of the with block; the lines go
\* to the file the descriptor is open on, whatever name it has by now
WriteLines(p) ==
    /\ pc[p] = "write"
    /\ tmp_file' = IF fd[p] = "tmp" THEN Some(Written(data_list[p], Get(tmp_file)))
                   ELSE tmp_file
    /\ db_file' = IF fd[p] = "db" THEN Some(Written(data_list[p], Get(db_file)))
                  ELSE db_file
    /\ fd' = [fd EXCEPT ![p] = "closed"]
    /\ pc' = [pc EXCEPT ![p] = "replace"]
    /\ UNCHANGED <<data_list, op, read_result, evaluation_vars, classifier_vars, item_vars>>

\* _write_all_lines: os.replace(temp_path, db_path), or temp_path.rename(db_path)
\* when there is no database file, and "return True"; without a temporary file
\* both raise, and the handler returns False
Replace(p) ==
    /\ pc[p] = "replace"
    /\ IF tmp_file = None
       THEN /\ Returned(p, "False")
            /\ UNCHANGED <<db_file, tmp_file, fd>>
       ELSE /\ db_file' = tmp_file
            /\ tmp_file' = None
            /\ fd' = AfterReplace(p)
            /\ Returned(p, "True")
    /\ UNCHANGED <<data_list, read_result, evaluation_vars, classifier_vars, item_vars>>

\* _write_all_lines: open, write or replace raises (no space, no permission); the
\* handler unlinks the temporary file if there is one and returns False
WriteFails(p) ==
    /\ pc[p] \in {"open", "write", "replace"}
    /\ tmp_file' = None
    /\ fd' = AfterUnlink(p)
    /\ Returned(p, "False")
    /\ UNCHANGED <<db_file, data_list, read_result, evaluation_vars, classifier_vars, item_vars>>

\* read_all of a third caller
ReadAll ==
    /\ read_result' = read_all(db_file)
    /\ UNCHANGED <<db_file, tmp_file, pc, fd, data_list, op, evaluation_vars, classifier_vars, item_vars>>

\* one caller at a time: a sequence of upsert and delete calls, and reads between
\* their steps
StoreNext ==
    \/ \E data \in Data : Upsert(1, data)
    \/ \E data_id \in Ids : Delete(1, data_id)
    \/ OpenTemp(1) \/ WriteLines(1) \/ Replace(1) \/ WriteFails(1)
    \/ ReadAll

SpecStore == Init /\ [][StoreNext]_vars

\* the stores two concurrent requests start from: no file yet, or the file a
\* sequence of calls has left
InitialStores ==
    {None, Some(<<>>), Some(<<[id |-> Some(1), name |-> "x"]>>),
     Some(<<[id |-> Some(1), name |-> "x"], [id |-> Some(2), name |-> "x"]>>)}

WritersInit ==
    /\ db_file \in InitialStores
    /\ tmp_file = None
    /\ pc = [p \in Writers |-> "idle"]
    /\ fd = [p \in Writers |-> "closed"]
    /\ data_list = [p \in Writers |-> <<>>]
    /\ op = [p \in Writers |-> [name |-> "none"]]
    /\ read_result = [kind |-> "none"]
    /\ variant = "none"
    /\ strict_mode = FALSE
    /\ limits = NoLimits
    /\ outcome = [kind |-> "none"]
    /\ result = None
    /\ calls = <<>>
    /\ requests = 0
    /\ class_limits = ClassAttributes
    /\ overridden = FALSE
    /\ classifier = "none"
    /\ image_input = <<>>
    /\ image_source = "none"
    /\ actual_image_url = None
    /\ again = <<>>
    /\ ItemsIdle

\* two requests at once, each one upsert or delete on the id of its own item, their
\* steps in any order (backend.py calls db.upsert and db.delete with no lock)
WritersNext ==
    \E p \in Writers :
        \/ op[p].name = "none" /\ \E name \in Names : Upsert(p, [id |-> Some(p), name |-> name])
        \/ op[p].name = "none" /\ Delete(p, Some(p))
        \/ OpenTemp(p) \/ WriteLines(p) \/ Replace(p) \/ WriteFails(p)

SpecWriters == WritersInit /\ [][WritersNext]_vars

(***************************************************************************)
(* demo/backend.py: the item handlers over the record store db.  The       *)
(* requests are served one after the other, so a handler is one step: it   *)
(* reads the store, may write an image file, and writes the store at most  *)
(* once.  A stored item is the dict create_item builds; its strings that   *)
(* are empty or generated ("本地文件名", "下载时间", "ocr_result") are the tuple    *)
(* of their parts, <<>> for "".  local_file_name stands for "本地文件名",       *)
(* download_time for "下载时间".                                              *)
(***************************************************************************)
\* the largest id create_item is let to assign
MaxItems == 2
ItemIds == 1..MaxItems

\* f"avatar_{item_id:04d}_{timestamp}{ext}", the timestamp and extension left out
file_name(item_id) == <<item_id>>
\* datetime.datetime.now().strftime(...)
now == <<"now">>
\* json.dumps(result, ensure_ascii=False): the text of the dict
dumps(doc) == <<doc>>

\* an id one more than the number of stored items
new_id_after_count(all_items) == Len(all_items) + 1

\* max(int(i.get("id", 0)) for i in all_items) + 1, and 1 when the list is empty or
\* int() raises (int(None) is a TypeError the bare except swallows)
new_id_after(all_items) ==
    LET ids == {get(all_items[i], "id", Some(0)) : i \in 1..Len(all_items)}
    IN IF all_items = <<>> \/ None \in ids THEN 1
       ELSE (CHOOSE m \in {Get(x) : x \in ids} : \A x \in ids : Get(x) <= m) + 1

\* create_item, the dict before the image is stored
new_item(new_id, should_pass) ==
    [id |-> Some(new_id), URL |-> "", local_file_name |-> <<>>, download_time |-> <<>>,
     ocr_result |-> <<>>, should_pass |-> should_pass, ocr_passed |-> None]

\* {**existing, **data}
merged(existing, data) ==
    [k \in DOMAIN existing \cup DOMAIN data |->
        IF k \in DOMAIN data THEN data[k] ELSE existing[k]]

\* an upsert whose failing write leaves the database file empty
db_upsert_truncating(file, data, written) ==
    IF written THEN [ret |-> "True", file |-> Some(sorted(upserted(read_all_lines(file), data)))]
    ELSE [ret |-> "False", file |-> Some(<<>>)]

\* db.upsert as the handler sees it: the file it leaves and what it returns; written
\* is whether writing the temporary file and replacing the database file went through
db_upsert(file, data, written) ==
    LET list == upserted(read_all_lines(file), data)
    IN IF sorted_raises(list) THEN [ret |-> "UnboundLocalError", file |-> file]
       ELSE IF written THEN [ret |-> "True", file |-> Some(sorted(list))]
       ELSE [ret |-> "False", file |-> file]

\* db.delete as the handler sees it
db_delete(file, data_id, written) ==
    LET original == read_all_lines(file)
        list == filtered(original, data_id)
    IN IF ~removed(list, original) THEN [ret |-> "False", file |-> file]
       ELSE IF sorted_raises(list) THEN [ret |-> "UnboundLocalError", file |-> file]
       ELSE IF written THEN [ret |-> "True", file |-> Some(sorted(list))]
       ELSE [ret |-> "False", file |-> file]

\* the answer to "if db.upsert(...): return ..." and the raise after it; an exception
\* no handler catches is answered with 500 as well
status_of(ret) == IF ret = "True" THEN 200 ELSE 500

\* the request bodies of update_item: Item.model_dump(exclude_unset=True)
Bodies ==
    {[URL |-> "v"], [id |-> Some(1), should_pass |-> Some(TRUE)]}

\* the body of ocr_item: none, or an OcrRequest
Tight ==
    [pitch_min |-> Some(-5), pitch_max |-> Some(5), yaw_min |-> Some(-5), yaw_max |-> Some(5),
     roll_min |-> Some(-15), roll_max |-> Some(15)]
Configs == {None, Some(Tight)}
\* the keyword arguments ocr_item passes to check_avatar
limits_of(config) == IF config = None THEN NoLimits ELSE Get(config)

\* what reading the stored image and asking the provider produces in ocr_item
Nodding == Face(OkRect, Attrs(Pose(8, 0, 0), MaskOf(0), None, None), None)
OcrOutcomes ==
    {[kind |-> "raised", code |-> Some("FailedOperation.ImageDecodeFailed"), message |-> "decode failed"],
     [kind |-> "response", FaceDetailInfos |-> Some(<<Nodding>>)]}

\* the handler has answered
Answered(name, item_id, status, returned) ==
    request' = [name |-> name, item_id |-> item_id, status |-> status,
                before |-> db_file, returned |-> returned]

\* POST /api/items
create_item ==
    /\ UNCHANGED <<tmp_file, pc, fd, data_list, op, read_result>>
    /\ UNCHANGED <<evaluation_vars, classifier_vars>>
    /\ \E url \in {None, Some("v")}, file \in BOOLEAN, should_pass \in {None, Some(TRUE)} :
          LET all_items == read_all(db_file)
              new_id == new_id_after(all_items.value)
              data == new_item(new_id, should_pass)
              stored == [data EXCEPT !.local_file_name = file_name(new_id),
                                     !.download_time = now,
                                     !.URL = IF file THEN "" ELSE Get(url)]
          IN /\ all_items.kind = "returned"
             /\ new_id <= MaxItems
             /\ \/ /\ file
                   \* shutil.copyfileobj raises, with the file opened or not
                   /\ Answered("create_item", new_id, 500, None)
                   /\ imgs' \in {imgs, imgs \cup {file_name(new_id)}}
                   /\ UNCHANGED db_file
                \/ /\ ~file /\ url # None
                   \* download_image returns ""
                   /\ Answered("create_item", new_id, 400, None)
                   /\ UNCHANGED <<db_file, imgs>>
                \/ /\ ~file /\ url = None
                   /\ Answered("create_item", new_id, 400, None)
                   /\ UNCHANGED <<db_file, imgs>>
                \/ /\ file \/ url # None
                   /\ \E written \in BOOLEAN :
                         LET done == db_upsert(db_file, stored, written)
                         IN /\ Answered("create_item", new_id, status_of(done.ret),
                                        IF done.ret = "True" THEN Some(stored) ELSE None)
                            /\ db_file' = done.file
                   /\ imgs' = imgs \cup {file_name(new_id)}

\* PUT /api/items/{item_id}
update_item ==
    /\ UNCHANGED <<tmp_file, pc, fd, data_list, op, read_result>>
    /\ UNCHANGED <<evaluation_vars, classifier_vars>>
    /\ \E item_id \in ItemIds, item \in Bodies :
          LET existing == get_by_id(db_file, Some(item_id))
              download == /\ "URL" \in DOMAIN item
                          /\ item.URL # ""
                          /\ item.URL # Get(existing).URL
          IN IF existing = None
             THEN /\ Answered("update_item", item_id, 404, None)
                  /\ UNCHANGED <<db_file, imgs>>
             ELSE \E saved \in (IF download THEN BOOLEAN ELSE {FALSE}), written \in BOOLEAN :
                     LET data == IF download
                                 THEN merged(item, [local_file_name |->
                                                       IF saved THEN file_name(item_id) ELSE <<>>,
                                                    download_time |-> now])
                                 ELSE item
                         updated_data == [merged(Get(existing), data) EXCEPT !.id = Some(item_id)]
                         done == db_upsert(db_file, updated_data, written)
                     IN /\ Answered("update_item", item_id, status_of(done.ret),
                                    IF done.ret = "True" THEN Some(updated_data) ELSE None)
                        /\ imgs' = IF saved THEN imgs \cup {file_name(item_id)} ELSE imgs
                        /\ db_file' = done.file

\* DELETE /api/items/{item_id}
delete_item ==
    /\ UNCHANGED <<imgs, tmp_file, pc, fd, data_list, op, read_result>>
    /\ UNCHANGED <<evaluation_vars, classifier_vars>>
    /\ \E item_id \in ItemIds, written \in BOOLEAN :
          LET done == db_delete(db_file, Some(item_id), written)
          IN /\ Answered("delete_item", item_id, status_of(done.ret), None)
             /\ db_file' = done.file

\* POST /api/items/{item_id}/ocr
ocr_item ==
    /\ UNCHANGED <<imgs, tmp_file, pc, fd, data_list, op, read_result>>
    /\ UNCHANGED <<evaluation_vars, classifier_vars>>
    /\ \E item_id \in ItemIds :
          LET item == get_by_id(db_file, Some(item_id))
              filename == Get(item).local_file_name
          IN IF item = None
             THEN /\ Answered("ocr_item", item_id, 404, None)
                  /\ UNCHANGED db_file
             ELSE IF filename = <<>>
             THEN /\ Answered("ocr_item", item_id, 400, None)
                  /\ UNCHANGED db_file
             ELSE IF filename \notin imgs
             THEN /\ Answered("ocr_item", item_id, 404, None)
                  /\ UNCHANGED db_file
             ELSE \E config \in Configs, o \in OcrOutcomes, written \in BOOLEAN :
                     LET verdict == Backend_check_avatar(o, limits_of(config)).ret
                         scored == [Get(item) EXCEPT !.ocr_result = dumps(verdict),
                                                     !.ocr_passed = Some(verdict.hasValidAvatar)]
                         done == db_upsert(db_file, scored, written)
                     IN /\ Answered("ocr_item", item_id, status_of(done.ret),
                                    IF done.ret = "True" THEN Some(verdict) ELSE None)
                        /\ db_file' = done.file

\* a file of imgs/ is removed from outside the service
ImageLost ==
    /\ \E f \in imgs : imgs' = imgs \ {f}
    /\ UNCHANGED <<request, db_file, tmp_file, pc, fd, data_list, op, read_result>>
    /\ UNCHANGED <<evaluation_vars, classifier_vars>>

ItemsNext == create_item \/ update_item \/ delete_item \/ ocr_item \/ ImageLost

SpecItems == Init /\ [][ItemsNext]_vars

(***************************************************************************)
(* What the claims speak of, read off the state                            *)
(***************************************************************************)
Called == variant # "none"
Ret == Get(result)
Responded == Called /\ outcome.kind = "response"
Infos == outcome.FaceDetailInfos
FacesReturned == IF NoFace(Infos) THEN 0 ELSE Len(Get(Infos))
Primary == Get(Infos)[1]
PrimaryAttrs == Primary.FaceDetailAttributesInfo
Invoked(name) == \E i \in 1..Len(calls) : calls[i] = name

\* the rejection reasons of the returned dict: the parts of its message other
\* than the success message
Reasons == SelectSeq(Ret.message, LAMBDA m : m.kind # "valid")
HasReason(kind) == \E i \in 1..Len(Ret.message) : Ret.message[i].kind = kind
FailFast == variant \in {"head_ocr", "avatar_detector", "backend"}
\* the evaluators with a face-count check
ChecksCount == variant \in {"head_ocr_util", "head_ocr"} \/ (variant = "avatar_detector" /\ strict_mode)

\* what the evaluator returns for the first face of the response alone
AloneResult ==
    IF variant = "backend"
    THEN Backend_evaluate(Some(<<Primary>>), current_limits(limits)).ret
    ELSE AvatarDetector_evaluate(Some(<<Primary>>), strict_mode).ret

\* C1: for every provider response with no face (FaceDetailInfos missing or empty),
\* in every evaluator and under every threshold configuration, the returned dict is
\* rejected, has faceCount 0 and exactly one reason, the no-face message, carries no
\* face data, and no geometry or attribute check was invoked.
C1_NoFaceTerminal ==
    (Responded /\ NoFace(Infos)) =>
        /\ Ret.hasValidAvatar = FALSE
        /\ Ret.faceCount = 0
        /\ Reasons = <<NoFaceMsg>>
        /\ Ret.message = <<NoFaceMsg>>
        /\ calls = <<>>
        /\ Ret.details = None /\ Ret.attributes = None /\ Ret.error = None

\* an empty FaceDetailInfos answered by backend.py under caller-supplied thresholds
C1_Witness ==
    /\ Responded /\ Infos = Some(<<>>)
    /\ variant = "backend" /\ limits.pitch_max = Some(5) /\ limits.roll_min = Some(-15)
    /\ Ret.message = <<NoFaceMsg>>

\* C2 as stated: in every evaluator a response with more than one face is rejected,
\* the first reason is the face-count reason, faceCount is the number of faces
\* returned and the dict carries no face data.
C2_MultiFaceEveryVariant ==
    (Responded /\ FacesReturned > 1) =>
        /\ Ret.hasValidAvatar = FALSE
        /\ Len(Reasons) >= 1 /\ Reasons[1].kind = "multi_face"
        /\ Ret.faceCount = FacesReturned
        /\ Ret.details = None /\ Ret.attributes = None

\* C2 (amended): in the evaluators that check the face count (head_ocr_util.py,
\* head_ocr.py, avatar_detector.py in strict mode) a response with more than one face
\* is rejected with the face-count reason as its only reason, faceCount is the number
\* of faces returned, no face data is returned and no check of the first face runs,
\* whatever its attributes; backend.py and avatar_detector.py in non-strict mode have
\* no face-count check: they judge the first face alone and return what they
\* return for that face alone, the faceCount apart.
C2_MultiFaceRejected ==
    (Responded /\ FacesReturned > 1) =>
        IF ChecksCount
        THEN /\ Ret.hasValidAvatar = FALSE
             /\ Len(Reasons) = 1 /\ Reasons[1].kind = "multi_face"
             /\ Ret.faceCount = FacesReturned
             /\ Ret.details = None /\ Ret.attributes = None
             /\ calls = <<>>
        ELSE /\ ~HasReason("multi_face")
             /\ Invoked("check_face_rect")
             /\ [Ret EXCEPT !.faceCount = 1] = [AloneResult EXCEPT !.faceCount = 1]

\* two faces, the first of them wearing a mask and sunglasses, rejected for the count
C2_Witness ==
    /\ Responded /\ FacesReturned = 2 /\ variant = "avatar_detector" /\ strict_mode
    /\ PrimaryAttrs # None /\ Get(PrimaryAttrs).Mask = MaskOf(3)
    /\ Ret.message = <<MultiFaceMsg>> /\ Ret.faceCount = 2

(***************************************************************************)
(* The first face as the claims describe it                                *)
(***************************************************************************)
SingleFace == Responded /\ FacesReturned = 1
BoxOf == Primary.FaceRect
PoseOf == IF PrimaryAttrs = None THEN None ELSE Get(PrimaryAttrs).HeadPose
MaskTypeOf == IF PrimaryAttrs = None THEN None ELSE Get(PrimaryAttrs).Mask
EyeOf == IF PrimaryAttrs = None THEN None ELSE Get(PrimaryAttrs).Eye
GlassOf == IF EyeOf = None THEN None ELSE Get(EyeOf).Glass
EyeOpenOf == IF EyeOf = None THEN None ELSE Get(EyeOf).EyeOpen
HatStyleOf ==
    IF PrimaryAttrs = None \/ Get(PrimaryAttrs).Hat = None THEN None
    ELSE Get(Get(PrimaryAttrs).Hat).Style
CompletenessOf ==
    IF Primary.FaceQualityInfo = None THEN None ELSE Get(Primary.FaceQualityInfo).Completeness

\* the box is there and both its sides are at least 20
BoxOk == BoxOf # None /\ Get(BoxOf).Width >= 20 /\ Get(BoxOf).Height >= 20

\* the pose thresholds in force: the caller's where backend.py was given one,
\* the defaults otherwise
InForce(supplied, default) ==
    IF variant = "backend" /\ supplied # None THEN Get(supplied) ELSE default
Axes == <<"pitch", "yaw", "roll">>
AxisValue(axis) ==
    CASE axis = "pitch" -> Get(PoseOf).Pitch
      [] axis = "yaw" -> Get(PoseOf).Yaw
      [] axis = "roll" -> Get(PoseOf).Roll
AxisMin(axis) ==
    CASE axis = "pitch" -> InForce(limits.pitch_min, -10)
      [] axis = "yaw" -> InForce(limits.yaw_min, -10)
      [] axis = "roll" -> InForce(limits.roll_min, -20)
AxisMax(axis) ==
    CASE axis = "pitch" -> InForce(limits.pitch_max, 10)
      [] axis = "yaw" -> InForce(limits.yaw_max, 10)
      [] axis = "roll" -> InForce(limits.roll_max, 20)
AxisOut(axis) == AxisValue(axis) < AxisMin(axis) \/ AxisValue(axis) > AxisMax(axis)
PoseViolated == PoseOf # None /\ \E i \in 1..3 : AxisOut(Axes[i])
NamesAxis(axis) ==
    \E i \in 1..Len(Ret.message) : Ret.message[i].kind = "pose" /\ Ret.message[i].axis = axis

\* the mask types each evaluator lets pass
AllowedMasks ==
    IF variant = "head_ocr_util" \/ (variant = "avatar_detector" /\ strict_mode)
    THEN {0} ELSE {0, 4}
MaskViolated == MaskTypeOf # None /\ Get(MaskTypeOf).Type \notin AllowedMasks

\* the pose and mask reasons of the returned dict, in the order reported
PoseMaskKinds ==
    LET picked == SelectSeq(Ret.message, LAMBDA m : m.kind \in {"pose", "mask"})
    IN [i \in 1..Len(picked) |-> picked[i].kind]

\* C3: for a single face with a valid box whose pose and mask both violate the
\* evaluator's rule, the fail-fast evaluators (backend.py, head_ocr.py,
\* avatar_detector.py) reject with exactly one reason, the pose reason, and the
\* accumulating evaluator (head_ocr_util.py) rejects with both, pose before mask.
C3_PoseBeforeMask ==
    (SingleFace /\ BoxOk /\ PoseViolated /\ MaskViolated) =>
        /\ Ret.hasValidAvatar = FALSE
        /\ IF FailFast
           THEN Len(Reasons) = 1 /\ Reasons[1].kind = "pose"
           ELSE PoseMaskKinds = <<"pose", "mask">>

\* head_ocr_util.py reporting a pitch over the maximum and a mask, in that order
C3_Witness ==
    /\ SingleFace /\ variant = "head_ocr_util" /\ BoxOk
    /\ PoseViolated /\ MaskViolated
    /\ Len(Ret.message) = 2
    /\ Ret.message[1].kind = "pose" /\ Ret.message[2].kind = "mask"

\* which check a reason kind belongs to, and whether the first face violates it;
\* glasses, eyes and hat are checked by avatar_detector.py in strict mode only and
\* occlusion by no fail-fast evaluator
Violated(check) ==
    CASE check = "no_face" -> FacesReturned = 0
      [] check = "multi_face" -> ChecksCount /\ FacesReturned > 1
      [] check = "face_rect" -> FacesReturned >= 1 /\ ~BoxOk
      [] check = "pose" -> FacesReturned >= 1 /\ PoseViolated
      [] check = "mask" -> FacesReturned >= 1 /\ MaskViolated
      [] check = "glass" ->
            /\ FacesReturned >= 1 /\ variant = "avatar_detector" /\ strict_mode
            /\ GlassOf # None /\ Get(GlassOf).Type = 2
      [] check = "eye" ->
            /\ FacesReturned >= 1 /\ variant = "avatar_detector" /\ strict_mode
            /\ EyeOpenOf # None /\ Get(EyeOpenOf).Type = 0 /\ Get(EyeOpenOf).Probability > 70
      [] check = "hat" ->
            /\ FacesReturned >= 1 /\ variant = "avatar_detector" /\ strict_mode
            /\ HatStyleOf # None /\ Get(HatStyleOf).Type # 0
      [] check = "occlusion" -> FALSE

FirstViolated(order) ==
    LET violated == {i \in 1..Len(order) : Violated(order[i])}
    IN IF violated = {} THEN "valid"
       ELSE order[CHOOSE i \in violated : \A j \in violated : i <= j]

\* the reason a violated check is reported by; a box that is missing altogether is
\* reported by the detection-failure message
ReportedAs(check) ==
    IF check = "face_rect" /\ BoxOf = None THEN "failed" ELSE check

StatedOrder ==
    <<"no_face", "multi_face", "face_rect", "pose", "mask", "glass", "eye", "hat", "occlusion">>
SourceOrder ==
    <<"no_face", "multi_face", "face_rect", "pose", "mask", "hat", "eye", "glass", "occlusion">>

\* C4 as stated: a fail-fast evaluator reports one reason, that of the first violated
\* check in the order presence, cardinality, geometry, pose, mask, glasses, eyes, hat,
\* occlusion (sunglasses with a hat, or with closed eyes, is reported as sunglasses).
C4_FirstViolatedStatedOrder ==
    (Responded /\ FailFast) =>
        /\ Len(Ret.message) = 1
        /\ Ret.message[1].kind = ReportedAs(FirstViolated(StatedOrder))

\* C4 (amended): a fail-fast evaluator reports one reason, that of the first violated
\* check, among those it runs, in the order presence, cardinality, geometry, pose,
\* mask, hat, eyes (closed), glasses (sunglasses): sunglasses with a hat is reported
\* as the hat and sunglasses with closed eyes as the closed eyes; with no check
\* violated the face is accepted.
C4_FirstViolatedReported ==
    (Responded /\ FailFast) =>
        /\ Len(Ret.message) = 1
        /\ Ret.message[1].kind = ReportedAs(FirstViolated(SourceOrder))

\* avatar_detector.py in strict mode, a face with a hat, closed eyes and sunglasses:
\* the hat is what is reported
C4_Witness ==
    /\ SingleFace /\ variant = "avatar_detector" /\ strict_mode
    /\ Violated("hat") /\ Violated("eye") /\ Violated("glass")
    /\ ~Violated("face_rect") /\ ~Violated("pose") /\ ~Violated("mask")
    /\ Ret.message = <<HatMsg>>

\* C5 as stated: whenever the pose check runs, on each axis a value at the minimum or
\* the maximum in force yields no pose reason naming the axis, and a value one over
\* the maximum or one under the minimum yields a pose reason naming the axis.
C5_EveryAxisNamed ==
    (Responded /\ Invoked("check_head_pose")) =>
        \A i \in 1..3 :
            LET axis == Axes[i]
            IN /\ AxisValue(axis) \in {AxisMin(axis), AxisMax(axis)} => ~NamesAxis(axis)
               /\ AxisValue(axis) \in {AxisMin(axis) - 1, AxisMax(axis) + 1} => NamesAxis(axis)

\* C5 (amended): whenever the pose check runs, under the default and under
\* caller-supplied thresholds, on each axis a value at the minimum or the maximum in
\* force yields no pose reason naming the axis, and a value one over the maximum or
\* one under the minimum yields the pose reason naming the axis, with the value and
\* the bounds in force, unless an axis checked before it (pitch, then yaw, then roll)
\* is out of range as well: then only the earlier axis is named.
C5_InclusiveBounds ==
    (Responded /\ Invoked("check_head_pose")) =>
        \A i \in 1..3 :
            LET axis == Axes[i]
                earlier == \E j \in 1..(i - 1) : AxisOut(Axes[j])
                reason == PoseMsg(axis, AxisValue(axis), AxisMin(axis), AxisMax(axis))
            IN /\ AxisValue(axis) \in {AxisMin(axis), AxisMax(axis)} => ~NamesAxis(axis)
               /\ AxisValue(axis) \in {AxisMin(axis) - 1, AxisMax(axis) + 1} =>
                     IF earlier THEN ~NamesAxis(axis)
                     ELSE \E k \in 1..Len(Ret.message) : Ret.message[k] = reason

\* backend.py under a caller's yaw maximum of 5: pitch at its maximum passes, yaw 6
\* is reported with the bounds in force
C5_Witness ==
    /\ SingleFace /\ variant = "backend" /\ limits.yaw_max = Some(5) /\ limits.pitch_max = None
    /\ Invoked("check_head_pose")
    /\ AxisValue("pitch") = 10 /\ AxisValue("yaw") = 6
    /\ Ret.message = <<PoseMsg("yaw", 6, AxisMin("yaw"), 5)>>

\* C6: the mask types that pass are {0} in head_ocr_util.py and in strict
\* avatar_detector.py and {0, 4} in backend.py, head_ocr.py and non-strict
\* avatar_detector.py: for every mask type (0..4 and an unknown one) a mask reason is
\* only ever reported for a type outside the set, and whenever the mask check runs it
\* is reported exactly for the types outside the set.
C6_MaskAllowedSet ==
    (Responded /\ FacesReturned >= 1) =>
        /\ HasReason("mask") => MaskViolated
        /\ Invoked("check_mask") => (HasReason("mask") <=> MaskViolated)

\* head_ocr_util.py rejecting a correctly worn mask (type 4)
C6_Witness ==
    /\ SingleFace /\ variant = "head_ocr_util" /\ Invoked("check_mask")
    /\ MaskTypeOf = MaskOf(4) /\ HasReason("mask") /\ Ret.hasValidAvatar = FALSE

\* every optional attribute of the first face is absent
AllAbsent ==
    /\ PoseOf = None /\ MaskTypeOf = None /\ GlassOf = None /\ EyeOpenOf = None
    /\ HatStyleOf = None /\ CompletenessOf = None

\* C7: whenever the first face has a box, no exception is raised inside check_avatar
\* (the dict carries no error and no detection-failure message), an absent pose, mask,
\* glasses, eye state, hat style or completeness (or a wholly absent attribute block)
\* yields no reason of its check, and a single face with a valid box and no optional
\* attribute at all is accepted.
C7_AbsentAttributesPass ==
    (Responded /\ FacesReturned >= 1 /\ BoxOf # None) =>
        /\ Ret.error = None /\ ~HasReason("failed")
        /\ PoseOf = None => ~HasReason("pose")
        /\ MaskTypeOf = None => ~HasReason("mask")
        /\ GlassOf = None => ~HasReason("glass")
        /\ EyeOpenOf = None => ~HasReason("eye")
        /\ HatStyleOf = None => ~HasReason("hat")
        /\ CompletenessOf = None => ~HasReason("occlusion")
        /\ (FacesReturned = 1 /\ BoxOk /\ AllAbsent) =>
              Ret.hasValidAvatar = TRUE /\ Ret.message = <<ValidMsg>>

\* strict avatar_detector.py accepting a face whose Hat has no Style and whose other
\* optional attributes are absent
C7_Witness ==
    /\ SingleFace /\ variant = "avatar_detector" /\ strict_mode /\ BoxOk
    /\ PrimaryAttrs # None /\ Get(PrimaryAttrs).Hat = Some([Style |-> None])
    /\ AllAbsent /\ Invoked("check_hat")
    /\ Ret.hasValidAvatar = TRUE

\* the face of the example: a 100x100 box, pose (0, 0, 0), mask type 0
ExampleFace ==
    /\ SingleFace
    /\ BoxOf = Some([Width |-> 100, Height |-> 100])
    /\ PoseOf = Some([Pitch |-> 0, Yaw |-> 0, Roll |-> 0])
    /\ MaskTypeOf = Some([Type |-> 0])
    /\ GlassOf = None /\ EyeOpenOf = None /\ HatStyleOf = None /\ CompletenessOf = None
DefaultThresholds == limits = NoLimits

\* C8: for every outcome of the provider call and every configuration, the returned
\* dict is accepted exactly when it carries no rejection reason (its message is then
\* the success message alone), and the single face with a 100x100 box, pose (0, 0, 0)
\* and mask type 0 is accepted under the default thresholds.
C8_AcceptedIffNoReason ==
    Called =>
        /\ Ret.hasValidAvatar = TRUE <=> Reasons = <<>>
        /\ Ret.hasValidAvatar = TRUE => Ret.message = <<ValidMsg>>
        /\ Len(Ret.message) >= 1
        /\ (ExampleFace /\ DefaultThresholds) => Ret.hasValidAvatar = TRUE

\* backend.py accepting the face of the example under its default thresholds
C8_Witness ==
    /\ ExampleFace /\ DefaultThresholds /\ variant = "backend"
    /\ Ret.hasValidAvatar = TRUE /\ Reasons = <<>> /\ Ret.faceCount = 1

\* the box the geometry check rejects: missing, a side not positive, or a side under 20
GeometryBad ==
    \/ BoxOf = None
    \/ Get(BoxOf).Width <= 0 \/ Get(BoxOf).Height <= 0
    \/ Get(BoxOf).Width < 20 \/ Get(BoxOf).Height < 20

\* C9: whenever the geometry check runs, the face is rejected by it (the dict is
\* rejected and no later check runs) exactly when the box is missing, a side is not
\* positive or a side is under 20; a box that is there is then rejected with the
\* face-box reason alone, so a side of 19 is and a 20x20 box is not.
C9_GeometryRejects ==
    (Responded /\ Invoked("check_face_rect")) =>
        /\ GeometryBad <=> (Ret.hasValidAvatar = FALSE /\ calls = <<"check_face_rect">>)
        /\ (GeometryBad /\ BoxOf # None) => Ret.message = <<FaceRectMsg>>
        /\ ~GeometryBad => (~HasReason("face_rect") /\ ~HasReason("failed"))

\* head_ocr.py rejecting a 19x100 box with the face-box reason
C9_Witness ==
    /\ SingleFace /\ variant = "head_ocr"
    /\ BoxOf = Some([Width |-> 19, Height |-> 100])
    /\ Ret.message = <<FaceRectMsg>> /\ Ret.hasValidAvatar = FALSE

(***************************************************************************)
(* The classifier as the claims describe it                                *)
(***************************************************************************)
Classified == classifier # "none"
\* the type is LocalFile: ImageSource.LOCAL_FILE, or 'relative_path' of avatar_detector.py
LocalFile == image_source \in {"local_file", "relative_path"}
DirectUrl == image_source = "direct_url"
IndirectSearchUrl == image_source = "baidu_url"
NetworkScheme ==
    \/ (Len(image_input) >= 7 /\ SubSeq(image_input, 1, 7) = <<"h", "t", "t", "p", ":", "/", "/">>)
    \/ (Len(image_input) >= 8
        /\ SubSeq(image_input, 1, 8) = <<"h", "t", "t", "p", "s", ":", "/", "/">>)

\* C10: every _get_image_type, that of avatar_detector.py included, gives every input
\* string one of the three types, never LocalFile to a string that starts with http://
\* or https://, and LocalFile to every other string, absolute path or relative.
C10_ClassifierEveryVariant ==
    Classified =>
        /\ LocalFile \/ DirectUrl \/ IndirectSearchUrl
        /\ NetworkScheme => ~LocalFile
        /\ ~NetworkScheme => LocalFile

\* the parts of a URL the claims speak of: the host runs from the "://" to the first
\* "/", "?" or "#", the query string what follows the first "?" before any "#"
FirstOf(str, stops) ==
    LET found == {i \in 1..Len(str) : str[i] \in stops}
    IN IF found = {} THEN Len(str) + 1 ELSE CHOOSE i \in found : \A j \in found : i <= j
Before(str, stops) == SubSeq(str, 1, FirstOf(str, stops) - 1)
After(str, stops) == SubSeq(str, FirstOf(str, stops) + 1, Len(str))
HostOfInput == Before(SubSeq(image_input, FirstOf(image_input, {":"}) + 3, Len(image_input)), {"/", "?", "#"})
QueryOfInput == After(Before(image_input, {"#"}), {"?"})
HasParameter(name) ==
    \/ (Len(QueryOfInput) > Len(name) /\ SubSeq(QueryOfInput, 1, Len(name) + 1) = name \o <<"=">>)
    \/ \E i \in 1..Len(QueryOfInput) :
          /\ QueryOfInput[i] = "&"
          /\ Len(QueryOfInput) >= i + Len(name) + 1
          /\ SubSeq(QueryOfInput, i + 1, i + Len(name) + 1) = name \o <<"=">>
Within(sub, str) ==
    \E i \in 1..(Len(str) - Len(sub) + 1) : SubSeq(str, i, i + Len(sub) - 1) = sub
\* the search domains the sources know: Baidu and Google images
KnownSearchDomain ==
    \/ Within(<<"b", "a", "i", "d", "u", ".", "c", "o", "m">>, HostOfInput)
    \/ Within(<<"g", "o", "o", "g", "l", "e", ".", "c", "o", "m">>, HostOfInput)
    \/ Within(<<"g", "o", "o", "g", "l", "e", "u", "s", "e", "r", "c", "o", "n", "t", "e", "n", "t", ".", "c", "o", "m">>, HostOfInput)
CarrierParameter == HasParameter(<<"o", "b", "j", "u", "r", "l">>) \/ HasParameter(<<"i", "m", "g", "u", "r", "l">>)

\* C11 as stated: a URL is IndirectSearchUrl exactly when its host names a known
\* image-search domain and its query carries objurl or imgurl.
C11_IndirectIffDomainAndCarrier ==
    (Classified /\ NetworkScheme) =>
        (IndirectSearchUrl <=> (KnownSearchDomain /\ CarrierParameter))

\* C11 (amended): a URL is IndirectSearchUrl exactly when the string contains
\* "image.baidu.com", or contains both "baidu.com" and "objurl", and DirectUrl
\* otherwise: a URL on image.baidu.com is IndirectSearchUrl with or without a carrier
\* parameter, a URL on another baidu.com host without objurl and a URL with a carrier
\* parameter and no "baidu.com" in it are DirectUrl, and so is a google.com URL
\* carrying imgurl.
C11_IndirectIffBaidu ==
    (Classified /\ NetworkScheme) =>
        /\ IndirectSearchUrl <=>
              \/ Within(<<"i", "m", "a", "g", "e", ".", "b", "a", "i", "d", "u", ".", "c", "o", "m">>, image_input)
              \/ (Within(<<"b", "a", "i", "d", "u", ".", "c", "o", "m">>, image_input) /\ Within(<<"o", "b", "j", "u", "r", "l">>, image_input))
        /\ ~IndirectSearchUrl => DirectUrl
        /\ Within(<<"i", "m", "a", "g", "e", ".", "b", "a", "i", "d", "u", ".", "c", "o", "m">>, HostOfInput) => IndirectSearchUrl
        /\ (Within(<<"b", "a", "i", "d", "u", ".", "c", "o", "m">>, HostOfInput) /\ ~Within(<<"i", "m", "a", "g", "e", ".", "b", "a", "i", "d", "u", ".", "c", "o", "m">>, HostOfInput)
            /\ ~Within(<<"o", "b", "j", "u", "r", "l">>, image_input)) => DirectUrl
        /\ (CarrierParameter /\ ~Within(<<"b", "a", "i", "d", "u", ".", "c", "o", "m">>, image_input)) => DirectUrl
        /\ (HostOfInput = <<"g", "o", "o", "g", "l", "e", ".", "c", "o", "m">> /\ HasParameter(<<"i", "m", "g", "u", "r", "l">>)) => DirectUrl

\* a URL on image.baidu.com with no query string at all, classified as a search URL
C11_Witness ==
    /\ Classified /\ classifier = "HeadOCR" /\ NetworkScheme
    /\ HostOfInput = <<"i", "m", "a", "g", "e", ".", "b", "a", "i", "d", "u", ".", "c", "o", "m">> /\ QueryOfInput = <<>> /\ ~CarrierParameter
    /\ IndirectSearchUrl

\* the URL put in the request
Sent == actual_image_url # None
SentUrl == Get(actual_image_url)
\* the text of the first field "name=..." of the query string, as written in the URL
RawParameter(name) ==
    LET fields == {i \in 1..Len(QueryOfInput) :
                      /\ (i = 1 \/ QueryOfInput[i - 1] = "&")
                      /\ Len(QueryOfInput) >= i + Len(name)
                      /\ SubSeq(QueryOfInput, i, i + Len(name)) = name \o <<"=">>}
        first == CHOOSE i \in fields : \A j \in fields : i <= j
        value == SubSeq(QueryOfInput, first + Len(name) + 1, Len(QueryOfInput))
    IN Before(value, {"&"})
\* percent-decoding: every %XX replaced by the character it encodes, once
RECURSIVE PercentDecoded(_)
PercentDecoded(str) ==
    IF str = <<>> THEN <<>>
    ELSE IF str[1] = "%" /\ Len(str) >= 3
    THEN LET pair == <<str[2], str[3]>>
             char == CASE pair = <<"2", "5">> -> <<"%">>
                       [] pair = <<"2", "0">> -> <<" ">>
                       [] pair = <<"2", "F">> -> <<"/">>
                       [] pair = <<"3", "A">> -> <<":">>
                       [] pair = <<"2", "B">> -> <<"+">>
                       [] OTHER -> <<"%", str[2], str[3]>>
         IN char \o PercentDecoded(SubSeq(str, 4, Len(str)))
    ELSE <<str[1]>> \o PercentDecoded(SubSeq(str, 2, Len(str)))
\* parsing the URL fails: its host has one square bracket only
ParsingFails ==
    /\ \E i \in 1..Len(HostOfInput) : HostOfInput[i] \in {"[", "]"}
    /\ ~(\E i, j \in 1..Len(HostOfInput) : HostOfInput[i] = "[" /\ HostOfInput[j] = "]")

\* the carrier parameter objurl is there with a value, none of whose characters is "+"
ObjurlValue ==
    /\ HasParameter(<<"o", "b", "j", "u", "r", "l">>)
    /\ RawParameter(<<"o", "b", "j", "u", "r", "l">>) # <<>>
    /\ \A i \in 1..Len(RawParameter(<<"o", "b", "j", "u", "r", "l">>)) : RawParameter(<<"o", "b", "j", "u", "r", "l">>)[i] # "+"

ProviderError == Called /\ outcome.kind = "raised" /\ outcome.code # None
\* the dict is an error outcome: it has the "error" key with the provider's code and
\* message, and its message is the failure message built from the provider's message
Surfaced ==
    /\ Ret.error = Some([code |-> outcome.code, message |-> outcome.message])
    /\ Ret.message = <<FailedMsg(outcome.message)>>
    /\ Ret.hasValidAvatar = FALSE /\ Ret.faceCount = 0
\* neither a second provider call nor any policy check
NoRetryNoCheck == requests = 1 /\ calls = <<>>

BackendCalled == Called /\ variant = "backend"
\* the thresholds the claim says the call uses
ThresholdsOfCall ==
    [pitch_min |-> InForce(limits.pitch_min, -10), pitch_max |-> InForce(limits.pitch_max, 10),
     yaw_min |-> InForce(limits.yaw_min, -10), yaw_max |-> InForce(limits.yaw_max, 10),
     roll_min |-> InForce(limits.roll_min, -20), roll_max |-> InForce(limits.roll_max, 20)]
ClassDefaults ==
    [PITCH_MIN |-> -10, PITCH_MAX |-> 10, YAW_MIN |-> -10, YAW_MAX |-> 10,
     ROLL_MIN |-> -20, ROLL_MAX |-> 20]

\* C14: in backend.py every pose threshold passed to check_avatar that is not None is
\* the one the call uses, in the pose decision and in the "config" it reports, and a
\* None one falls back to the default (pitch and yaw -10..10, roll -20..20); the
\* class attributes hold the defaults in every state, so whatever calls came before,
\* a call without overrides decides and reports with the defaults.
C14_OverridesPerCall ==
    /\ class_limits = ClassDefaults
    /\ (BackendCalled /\ Ret.config # None) => Get(Ret.config) = ThresholdsOfCall
    /\ (BackendCalled /\ Responded /\ Invoked("check_head_pose")) =>
           (HasReason("pose") <=> PoseViolated)

\* after a call with overrides, a call without any accepts a pitch of 10 and reports
\* the default thresholds
C14_Witness ==
    /\ overridden /\ BackendCalled /\ limits = NoLimits /\ SingleFace
    /\ PoseOf # None /\ Get(PoseOf).Pitch = 10
    /\ Ret.hasValidAvatar = TRUE
    /\ Get(Ret.config).pitch_max = 10 /\ Get(Ret.config).roll_min = -20

Stored == read_all_lines(db_file)
IdOf(item) == Get(item.id)
Ascending(list) == \A i \in 1..(Len(list) - 1) : IdOf(list[i]) <= IdOf(list[i + 1])
SameRecords(a, b) ==
    Len(a) = Len(b) /\ {a[i] : i \in 1..Len(a)} = {b[i] : i \in 1..Len(b)}

\* C16: in every state a sequence of upsert and delete calls reaches, read_all
\* returns the stored records in ascending order of id, what a reader was returned is
\* ascending, and the lines of the database file and of the temporary file are in
\* ascending order of id.
C16_AscendingIds ==
    /\ read_all(db_file).kind = "returned"
    /\ Ascending(read_all(db_file).value)
    /\ SameRecords(read_all(db_file).value, Stored)
    /\ read_result.kind \in {"none", "returned"}
    /\ read_result.kind = "returned" => Ascending(read_result.value)
    /\ Ascending(Stored)
    /\ Ascending(read_all_lines(tmp_file))

\* id 1 upserted into a store that held id 2 alone: the file and read_all give 1, 2
C16_Witness ==
    /\ pc[1] = "idle" /\ op[1].name = "upsert" /\ op[1].ret = "True"
    /\ op[1].data.id = Some(1)
    /\ Len(read_all_lines(op[1].before)) = 1 /\ exists(op[1].before, Some(2))
    /\ Len(Stored) = 2 /\ Stored[1] = op[1].data /\ Stored[2].id = Some(2)
    /\ read_result = read_all(db_file)

\* the last operation of the one caller has returned or raised
Finished(name) == pc[1] = "idle" /\ op[1].name = name
StoredBefore == read_all_lines(op[1].before)
OthersUnchanged(data_id) ==
    \A other \in Ids \ {data_id} : get_by_id(db_file, other) = get_by_id(op[1].before, other)
\* the effect of upsert(data) the claim describes
UpsertEffect ==
    /\ get_by_id(db_file, op[1].data.id) = Some(op[1].data)
    /\ OthersUnchanged(op[1].data.id)
    /\ Len(Stored) = Len(StoredBefore) + (IF exists(op[1].before, op[1].data.id) THEN 0 ELSE 1)
NoIdKey == "id" \notin DOMAIN op[1].data
StoreUnchanged == db_file = op[1].before
\* the ids of the stored records and of data cannot be ordered: another record is
\* stored and one of the ids is None
Unordered ==
    /\ \E other \in Ids \ {op[1].data.id} : exists(op[1].before, other)
    /\ (op[1].data.id = None \/ exists(op[1].before, None))

\* C17 as stated: every upsert of data with an id leaves data stored under its id,
\* the other records unchanged and the count grown by one only on insert; upsert
\* without the id key raises ValueError and leaves the store unchanged.
C17_UpsertAlwaysStores ==
    Finished("upsert") =>
        IF NoIdKey THEN op[1].ret = "ValueError" /\ StoreUnchanged
        ELSE UpsertEffect

\* C17: an upsert of data with an id that returns True leaves data stored under its
\* id, the other records unchanged and the count grown by one only on insert; an
\* upsert whose write fails returns False, and one whose ids cannot be ordered
\* raises UnboundLocalError, both leaving the store unchanged; upsert without the id
\* key raises ValueError and leaves the store unchanged.
C17_UpsertStoresWhenTrue ==
    Finished("upsert") =>
        IF NoIdKey THEN op[1].ret = "ValueError" /\ StoreUnchanged
        ELSE /\ op[1].ret \in {"True", "False", "UnboundLocalError"}
             /\ op[1].ret = "True" => UpsertEffect
             /\ op[1].ret # "True" => StoreUnchanged
             /\ op[1].ret = "UnboundLocalError" <=> Unordered

\* id 1 stored as "x" beside id 2, then upserted as "y": two records still
C17_Witness ==
    /\ Finished("upsert") /\ op[1].ret = "True"
    /\ op[1].data = [id |-> Some(1), name |-> "y"]
    /\ get_by_id(op[1].before, Some(1)) = Some([id |-> Some(1), name |-> "x"])
    /\ exists(op[1].before, Some(2))
    /\ Len(Stored) = 2 /\ get_by_id(db_file, Some(1)) = Some(op[1].data)

\* the effect of delete(data_id) the claim describes
DeleteEffect ==
    /\ ~exists(db_file, op[1].data_id)
    /\ \A i \in 1..Len(Stored) : get(Stored[i], "id", None) # op[1].data_id
    /\ OthersUnchanged(op[1].data_id)
\* delete of an id that is not stored: True at once, no write begun, the file as it was
NotStoredNoRewrite ==
    (op[1].name = "delete" /\ ~exists(op[1].before, op[1].data_id)) =>
        (pc[1] = "idle" /\ op[1].ret = "True" /\ StoreUnchanged)

\* C18 as stated: after every delete(id) no record with the id is stored, exists(id)
\* is false and the other records are unchanged; delete of an id that is not stored
\* returns True and leaves the file as it was, without a write.
C18_DeleteAlwaysRemoves ==
    /\ Finished("delete") => DeleteEffect
    /\ NotStoredNoRewrite

\* C18: a delete(id) that returns True leaves no record with the id, exists(id)
\* false and the other records unchanged; a delete whose write fails returns False
\* and leaves the store unchanged, the record still there; delete of an id that is
\* not stored returns True and leaves the file as it was, without a write, so a
\* second delete of the id changes nothing.
C18_DeleteRemovesWhenTrue ==
    /\ Finished("delete") =>
          /\ op[1].ret \in {"True", "False"}
          /\ op[1].ret = "True" => DeleteEffect
          /\ op[1].ret = "False" => (StoreUnchanged /\ exists(db_file, op[1].data_id))
    /\ NotStoredNoRewrite

\* id 1 deleted from a store holding ids 1 and 2: id 2 alone is left
C18_Witness ==
    /\ Finished("delete") /\ op[1].ret = "True" /\ op[1].data_id = Some(1)
    /\ Len(StoredBefore) = 2 /\ exists(op[1].before, Some(1))
    /\ Len(Stored) = 1 /\ Stored[1].id = Some(2) /\ ~exists(db_file, Some(1))

\* the operation of the one caller got as far as _write_all_lines
WriteBegun ==
    /\ op[1].name \in {"upsert", "delete"}
    /\ op[1].ret # "ValueError"
    /\ ~(op[1].name = "delete" /\ ~exists(op[1].before, op[1].data_id))
\* what the write in progress, or the last one, is to put in the file
NewContents == Some(data_list[1])
\* the database file holds all of the previous contents, or all of the new
CompleteOldOrNew == db_file = op[1].before \/ db_file = NewContents

\* C19 as stated: with one writer, at every step of a write the database file holds
\* the complete previous contents until the replace and the complete new contents
\* after it, never anything else, and a write that fails returns False (it does not
\* raise) with the previous contents in place.
C19_AtomicReplaceFailsFalse ==
    WriteBegun =>
        /\ CompleteOldOrNew
        /\ pc[1] # "idle" => db_file = op[1].before
        /\ op[1].ret = "True" => db_file = NewContents
        /\ op[1].ret \in {"running", "True", "False"}
        /\ op[1].ret = "False" => db_file = op[1].before

(***************************************************************************)
(* The record store, two callers at once                                   *)
(***************************************************************************)
BothReturned == \A p \in Writers : pc[p] = "idle" /\ op[p].name # "none"
\* the store shows what the operation of writer p was to do
EffectOf(p) ==
    IF op[p].name = "upsert" THEN get_by_id(db_file, op[p].data.id) = Some(op[p].data)
    ELSE ~exists(db_file, op[p].data_id)

\* C20 as stated: when two upsert/delete calls on different ids interleave, the final
\* store shows the effect of each call that returned True, and the temporary file a
\* writer is about to move over the database file holds the lines that writer wrote.
C20_NoLostUpdate ==
    /\ BothReturned => \A p \in Writers : op[p].ret = "True" => EffectOf(p)
    /\ \A p \in Writers : pc[p] = "replace" => tmp_file = Some(data_list[p])

(***************************************************************************)
(* The accumulating evaluator, head_ocr_util.py                            *)
(***************************************************************************)
Accumulating == SingleFace /\ variant = "head_ocr_util"
\* the box is there and a side is under 20
BoxTooSmall == BoxOf # None /\ ~BoxOk
\* the kinds of the rejection reasons, in the order reported
ReasonKinds == [i \in 1..Len(Reasons) |-> Reasons[i].kind]
\* the checks after the geometry check that have something to look at
Applicable ==
    CallIf(PoseOf, "check_head_pose") \o CallIf(MaskTypeOf, "check_mask")
    \o CallIf(GlassOf, "check_glass") \o CallIf(EyeOf, "check_eye")
    \o CallIf(Primary.FaceQualityInfo, "check_occlusion")

\* C21 as stated: the accumulating evaluator goes on after a failing geometry check:
\* a single face with a box that is too small reports the geometry reason first and,
\* when its mask type is disallowed, the mask reason after it, and every check that
\* has something to look at runs.
C21_ContinuesAfterGeometry ==
    Accumulating =>
        /\ BoxTooSmall => ReasonKinds[1] = "face_rect"
        /\ MaskViolated => HasReason("mask")
        /\ calls = <<"check_face_rect">> \o Applicable

\* C21: in the accumulating evaluator a single face whose box passes the geometry
\* check has every check that has something to look at run, a pose reason exactly
\* when the pose is out of range and a mask reason exactly when the mask type is
\* disallowed, pose before mask; a single face whose box is too small is returned at
\* once with the geometry reason alone, no later check running, whatever its mask.
C21_ContinuesAfterFailingStep ==
    Accumulating =>
        /\ BoxOk =>
              /\ calls = <<"check_face_rect">> \o Applicable
              /\ HasReason("pose") <=> PoseViolated
              /\ HasReason("mask") <=> MaskViolated
              /\ (PoseViolated /\ MaskViolated) => PoseMaskKinds = <<"pose", "mask">>
        /\ BoxTooSmall =>
              /\ Ret.message = <<FaceRectMsg>>
              /\ calls = <<"check_face_rect">>

\* a 19x100 box with mask type 1: the geometry reason alone
C21_Witness ==
    /\ Accumulating /\ BoxOf = Rect(19, 100) /\ MaskViolated
    /\ Get(MaskTypeOf).Type = 1
    /\ Ret.message = <<FaceRectMsg>> /\ ~HasReason("mask")

\* the pose reasons of the returned dict, in the order reported
PoseReasons == SelectSeq(Ret.message, LAMBDA m : m.kind = "pose")
\* the axes outside their ranges, in the order pitch, yaw, roll
ViolatedAxes == SelectSeq(Axes, LAMBDA axis : AxisOut(axis))
ReasonOfAxis(axis) == PoseMsg(axis, AxisValue(axis), AxisMin(axis), AxisMax(axis))
PoseChecked == Accumulating /\ BoxOk /\ PoseOf # None

\* C22 as stated: in the accumulating evaluator a pose with k axes outside their
\* ranges yields exactly k pose reasons, one per violated axis in the order pitch,
\* yaw, roll, each naming its axis, the measured value and the range.
C22_OneReasonPerAxis ==
    PoseChecked =>
        PoseReasons = [i \in 1..Len(ViolatedAxes) |-> ReasonOfAxis(ViolatedAxes[i])]

\* C22: in the accumulating evaluator a pose with no axis outside its range yields
\* no pose reason, and a pose with one, two or three axes outside their ranges yields
\* exactly one pose reason, that of the first violated axis in the order pitch, yaw,
\* roll, naming its axis, the measured value and the range.
C22_FirstViolatedAxisOnly ==
    PoseChecked =>
        PoseReasons = IF ViolatedAxes = <<>> THEN <<>>
                      ELSE <<ReasonOfAxis(ViolatedAxes[1])>>

\* pitch 0, yaw 11 and roll 21: the yaw reason alone
C22_Witness ==
    /\ PoseChecked /\ PoseOf = Pose(0, 11, 21)
    /\ ViolatedAxes = <<"yaw", "roll">>
    /\ PoseReasons = <<PoseMsg("yaw", 11, -10, 10)>>

\* the occlusion reasons of the returned dict, in the order reported
OcclusionReasons == SelectSeq(Ret.message, LAMBDA m : m.kind = "occlusion")
Regions == <<"eye", "mouth", "nose">>
Score(region) ==
    CASE region = "eye" -> Get(CompletenessOf).Eye
      [] region = "mouth" -> Get(CompletenessOf).Mouth
      [] region = "nose" -> Get(CompletenessOf).Nose
\* the regions whose score is strictly below 50, in the order eye, mouth, nose
Occluded == SelectSeq(Regions, LAMBDA region : Score(region) < 50)

\* C23: in the accumulating evaluator, for a single face past the geometry check,
\* when completeness is present every one of the eye, mouth and nose scores strictly
\* below 50 has its own occlusion reason, naming the region, the score and the
\* threshold, in the order eye, mouth, nose, and a score of 50 has none; when
\* completeness is absent there is no occlusion reason.
C23_OcclusionPerRegion ==
    (Accumulating /\ BoxOk) =>
        IF CompletenessOf = None THEN OcclusionReasons = <<>>
        ELSE OcclusionReasons =
                [i \in 1..Len(Occluded) |-> OcclusionMsg(Occluded[i], Score(Occluded[i]), 50)]

\* eye 49, mouth 50, nose 49: an eye reason and a nose reason, none for the mouth
C23_Witness ==
    /\ Accumulating /\ BoxOk /\ CompletenessOf = Some([Eye |-> 49, Mouth |-> 50, Nose |-> 49])
    /\ OcclusionReasons = <<OcclusionMsg("eye", 49, 50), OcclusionMsg("nose", 49, 50)>>

(***************************************************************************)
(* Glasses, hat and eyes                                                   *)
(***************************************************************************)
StrictDetector == variant = "avatar_detector" /\ strict_mode
\* the evaluators with a sunglasses check
SunglassesDisallowed == variant = "head_ocr_util" \/ StrictDetector
\* the step that looks at the glasses ran: _check_glass of head_ocr_util.py, _check_eye
\* of avatar_detector.py
GlassChecked ==
    \/ variant = "head_ocr_util" /\ Invoked("check_glass")
    \/ StrictDetector /\ Invoked("check_eye")
Sunglasses == GlassOf # None /\ Get(GlassOf).Type = 2
\* what avatar_detector.py reads as closed eyes
ClosedForDetector ==
    EyeOpenOf # None /\ Get(EyeOpenOf).Type = 0 /\ Get(EyeOpenOf).Probability > 70

\* C24 as stated: wherever sunglasses are disallowed and the step that looks at the
\* glasses runs on a present glass attribute, type 2 always yields a glasses reason
\* and types 0 and 1 never do.
C24_SunglassesAlwaysReported ==
    (Responded /\ SunglassesDisallowed /\ GlassChecked /\ GlassOf # None) =>
        (HasReason("glass") <=> Sunglasses)

\* C24: types 0 and 1 never yield a glasses reason, and no evaluator without a
\* sunglasses check yields one; in head_ocr_util.py, when the glasses check runs, type
\* 2 always yields the glasses reason; in strict avatar_detector.py, when the eye check
\* runs, type 2 yields the glasses reason exactly when the eyes are not reported
\* closed (EyeOpen type 0 with probability over 70), the closed-eyes reason being
\* returned in its place otherwise.
C24_SunglassesReported ==
    Responded =>
        /\ HasReason("glass") => (Sunglasses /\ SunglassesDisallowed)
        /\ (variant = "head_ocr_util" /\ GlassChecked /\ Sunglasses) => HasReason("glass")
        /\ (StrictDetector /\ GlassChecked /\ Sunglasses) =>
              IF ClosedForDetector THEN Ret.message = <<EyeMsg>>
              ELSE Ret.message = <<GlassMsg>>

\* strict avatar_detector.py, sunglasses over eyes closed with probability 71: the
\* closed-eyes reason, no glasses reason
C24_Witness ==
    /\ SingleFace /\ StrictDetector /\ GlassChecked /\ Sunglasses
    /\ ClosedForDetector /\ Get(EyeOpenOf).Probability = 71
    /\ Ret.message = <<EyeMsg>> /\ ~HasReason("glass")

\* the checks before the hat check pass
PastMask == SingleFace /\ BoxOk /\ ~PoseViolated /\ ~MaskViolated
Hatted == HatStyleOf # None /\ Get(HatStyleOf).Type # 0
Bareheaded == HatStyleOf # None /\ Get(HatStyleOf).Type = 0

\* C25 as stated: in strict avatar_detector.py and in head_ocr.py, for a single face
\* that passes the checks before the hat check, a hat style type other than 0 makes
\* the verdict rejected with the hat reason, and style type 0 yields no hat reason.
C25_HatRejectedWhereRequested ==
    (PastMask /\ (StrictDetector \/ variant = "head_ocr")) =>
        /\ Hatted => (Ret.hasValidAvatar = FALSE /\ Ret.message = <<HatMsg>>)
        /\ Bareheaded => ~HasReason("hat")

\* C25: in strict avatar_detector.py, for a single face that passes the checks before
\* the hat check, a hat style type other than 0 makes the verdict rejected with the
\* hat reason, and style type 0 yields no hat reason; head_ocr.py, which requests the
\* Hat attribute, has no hat check: it never yields a hat reason and accepts such a
\* face whatever its hat, as every evaluator other than strict avatar_detector.py
\* never yields a hat reason.
C25_HatRejectedByStrictDetector ==
    /\ (PastMask /\ StrictDetector) =>
          /\ Hatted => (Ret.hasValidAvatar = FALSE /\ Ret.message = <<HatMsg>>)
          /\ Bareheaded => ~HasReason("hat")
    /\ (Responded /\ ~StrictDetector) => ~HasReason("hat")
    /\ (PastMask /\ variant = "head_ocr") => Ret.hasValidAvatar = TRUE

\* strict avatar_detector.py rejecting hat style type 1 with the hat reason
C25_Witness ==
    /\ PastMask /\ StrictDetector /\ Hatted /\ Get(HatStyleOf).Type = 1
    /\ Ret.hasValidAvatar = FALSE /\ Ret.message = <<HatMsg>>

\* the verdicts of the two evaluators with a closed-eyes check on the face of the
\* response: the one returned, and the one the other evaluator gives the same face
UtilVerdict ==
    IF variant = "head_ocr_util" THEN Ret ELSE HeadOCRUtil_evaluate(Some(<<Primary>>)).ret
DetectorVerdict ==
    IF StrictDetector THEN Ret ELSE AvatarDetector_evaluate(Some(<<Primary>>), TRUE).ret
ClosedIn(ret) == \E i \in 1..Len(ret.message) : ret.message[i].kind = "eye"
\* a single face on which both evaluators reach their eye check, its eye record
\* carrying EyeOpen with a probability above 70
EyeCompared ==
    /\ PastMask /\ (variant = "head_ocr_util" \/ StrictDetector)
    /\ ~Hatted
    /\ EyeOpenOf # None /\ Get(EyeOpenOf).Probability > 70

\* C26: for the same eye record with a probability above 70, EyeOpen type 0 is
\* reported closed by strict avatar_detector.py and not by head_ocr_util.py, type 1 is
\* reported closed by head_ocr_util.py and not by avatar_detector.py, so exactly one of
\* the two reports closed eyes.
C26_OppositePolarity ==
    EyeCompared =>
        /\ Get(EyeOpenOf).Type = 0 => (ClosedIn(DetectorVerdict) /\ ~ClosedIn(UtilVerdict))
        /\ Get(EyeOpenOf).Type = 1 => (ClosedIn(UtilVerdict) /\ ~ClosedIn(DetectorVerdict))
        /\ ClosedIn(UtilVerdict) # ClosedIn(DetectorVerdict)

\* head_ocr_util.py reporting type 1 with probability 71 closed, a record strict
\* avatar_detector.py accepts
C26_Witness ==
    /\ EyeCompared /\ variant = "head_ocr_util"
    /\ EyeOpenOf = Some([Type |-> 1, Probability |-> 71]) /\ GlassOf = None
    /\ Ret.message = <<EyeMsg>>
    /\ DetectorVerdict.hasValidAvatar = TRUE

(***************************************************************************)
(* The item handlers of demo/backend.py.                                   *)
(***************************************************************************)
\* the last request, the records before it, and their ids
Served(name) == request.name = name
Succeeded(name) == request.name = name /\ request.status = 200
RecordsBefore == read_all_lines(request.before)
IdsOf(list) == {list[i].id : i \in 1..Len(list)}
\* every record but the one with the id of the request path is as it was, and no
\* record was added or removed
OnlyPathRecordRewritten ==
    /\ Len(Stored) = Len(RecordsBefore)
    /\ IdsOf(Stored) = IdsOf(RecordsBefore)
    /\ \A i \in 1..Len(Stored) :
          Stored[i].id # Some(request.item_id) => Stored[i] \in {RecordsBefore[j] : j \in 1..Len(RecordsBefore)}
\* the id create_item gave: 1 on an empty store, else one more than the largest
AssignedId == Get(Get(request.returned).id)
NextAfterLargest ==
    IF RecordsBefore = <<>> THEN AssignedId = 1
    ELSE /\ Some(AssignedId - 1) \in IdsOf(RecordsBefore)
         /\ \A x \in IdsOf(RecordsBefore) : Get(x) < AssignedId

\* C27: starting from the empty store, after any sequence of create_item,
\* update_item, delete_item and ocr_item requests served one after the other no two
\* stored records share an id; a successful create_item stored the id 1 on an empty
\* store and else one more than the largest stored id, an id no record had; and
\* update_item and ocr_item leave every record but the one of the request path as it
\* was, adding and removing none.
C27_UniqueIds ==
    /\ \A i, j \in 1..Len(Stored) : i # j => Stored[i].id # Stored[j].id
    /\ Succeeded("create_item") =>
          /\ NextAfterLargest
          /\ Some(AssignedId) \notin IdsOf(RecordsBefore)
          /\ Some(AssignedId) \in IdsOf(Stored)
    /\ (Served("update_item") \/ Served("ocr_item")) => OnlyPathRecordRewritten

\* a second record was created beside a stored one and then updated with a body
\* that names the id of the other
C27_Witness ==
    /\ Succeeded("update_item")
    /\ request.item_id = 2
    /\ Len(Stored) = 2
    /\ Get(request.returned).should_pass = Some(TRUE)
    /\ Get(request.returned) \notin {RecordsBefore[j] : j \in 1..Len(RecordsBefore)}

RecordsOf(list) == {list[i] : i \in 1..Len(list)}
\* C28: a create_item request that fails (neither url nor file supplied, the download
\* of the URL fails, saving the upload fails, or the store cannot be written) is
\* answered with an HTTP error, 400 or 500, and leaves the record store exactly as it
\* was; a successful create_item adds exactly one record, the one it returns, and
\* changes no other record.
C28_FailedCreateLeavesStore ==
    /\ (Served("create_item") /\ request.status # 200) =>
          /\ request.status \in {400, 500}
          /\ db_file = request.before
    /\ Succeeded("create_item") =>
          /\ Len(Stored) = Len(RecordsBefore) + 1
          /\ RecordsOf(Stored) = RecordsOf(RecordsBefore) \cup {Get(request.returned)}
          /\ Get(request.returned) \notin RecordsOf(RecordsBefore)

\* a create_item failed with a record stored and after its image file was created
C28_Witness ==
    /\ Served("create_item")
    /\ request.status = 500
    /\ Stored # <<>>
    /\ file_name(request.item_id) \in imgs
    /\ Some(request.item_id) \notin IdsOf(Stored)

\* the verdicts check_avatar can hand to ocr_item
OcrVerdicts ==
    {Backend_check_avatar(o, limits_of(config)).ret : o \in OcrOutcomes, config \in Configs}
\* the item of the request path before the step, and after it
ItemBefore == get_by_id(db_file, Some(request'.item_id))
ItemAfter == get_by_id(db_file', Some(request'.item_id))
OthersKept ==
    /\ Len(read_all_lines(db_file')) = Len(read_all_lines(db_file))
    /\ \A other \in ItemIds \ {request'.item_id} :
          get_by_id(db_file', Some(other)) = get_by_id(db_file, Some(other))
OcrStored ==
    LET verdict == Get(request'.returned)
    IN /\ verdict \in OcrVerdicts
       /\ ItemAfter # None
       /\ Get(ItemAfter).ocr_passed = Some(verdict.hasValidAvatar)
       /\ Get(ItemAfter).ocr_result = dumps(verdict)
       /\ DOMAIN Get(ItemAfter) = DOMAIN Get(ItemBefore)
       /\ \A k \in DOMAIN Get(ItemAfter) \ {"ocr_passed", "ocr_result"} :
             Get(ItemAfter)[k] = Get(ItemBefore)[k]
       /\ OthersKept

\* a step of ocr_item: the only action that answers under that name; a step that
\* leaves the answer as it was is ImageLost or changes nothing
OcrStep == request'.name = "ocr_item" /\ request' # request

\* C29: every ocr_item(id) step that answers 200 leaves the record of id with
\* ocr_passed equal to hasValidAvatar of the verdict check_avatar returned in that
\* step and ocr_result equal to the serialisation of that verdict, every other field
\* of that record and every other record as before; an ocr_item on an id that is not
\* stored answers 404, on an item whose local file name is empty 400, on an item
\* whose image file is not in imgs/ 404, and each of these, like every answer other
\* than 200, leaves the store unchanged.
C29_OcrFrameEffect ==
    [][OcrStep =>
          /\ request'.status = 200 => OcrStored
          /\ request'.status # 200 => db_file' = db_file
          /\ ItemBefore = None => request'.status = 404
          /\ (ItemBefore # None /\ Get(ItemBefore).local_file_name = <<>>) =>
                request'.status = 400
          /\ (/\ ItemBefore # None
              /\ Get(ItemBefore).local_file_name # <<>>
              /\ Get(ItemBefore).local_file_name \notin imgs) => request'.status = 404]_vars

\* the second of two stored items was scored and rejected under the thresholds of
\* the request, the first having been scored before
C29_Witness ==
    /\ Succeeded("ocr_item")
    /\ request.item_id = 2
    /\ Len(Stored) = 2
    /\ Stored[2].ocr_passed = Some(FALSE)
    /\ Stored[2].ocr_result = dumps(Get(request.returned))
    /\ Stored[1].ocr_passed = Some(TRUE)
    /\ Stored[2] # RecordsBefore[2]

\* C30: in every evaluator that checks the number of faces (head_ocr.py,
\* head_ocr_util.py, avatar_detector.py in strict mode) a returned dict that accepts
\* has faceCount 1, and a returned dict with faceCount 0 rejects: no dict is returned
\* with hasValidAvatar true and a faceCount other than 1.
C30_AcceptedHasOneFace ==
    (Called /\ ChecksCount) =>
       /\ Ret.hasValidAvatar = TRUE => Ret.faceCount = 1
       /\ Ret.faceCount = 0 => Ret.hasValidAvatar = FALSE

\* the strict detector accepted the one face the provider returned
C30_Witness ==
    /\ variant = "avatar_detector" /\ strict_mode
    /\ SingleFace
    /\ Ret.hasValidAvatar = TRUE
    /\ Ret.faceCount = 1

====
